---- MODULE Spec2Model ----
(***************************************************************************)
(* Telemetry-to-graph compilers of the dashboard: the ProcessChain         *)
(* component of src/App.tsx and the NetworkChain component of              *)
(* src/services/NetworkChain.tsx.  Both receive the props                  *)
(* (detections, isActive) and memoise a mermaid graph description.         *)
(*                                                                         *)
(* Strings are sequences of one-character strings, so that concatenation,  *)
(* splitting, trimming and key construction are computed as the code       *)
(* computes them.  An emoji is one character, written as a name in         *)
(* parentheses.  A JavaScript Map or Set is the sequence of its entries    *)
(* in insertion order.                                                     *)
(***************************************************************************)
EXTENDS Naturals, Integers, Sequences, FiniteSets, TLC

VARIABLES detections, isActive, idCache, idCounter, pendingReset, procDef, netDef,
          svgContent, isRendering, inFlight, pendingRender,
          appDetections, uniqueField, uniqueFilterEnabled, displayDetections,
          analyzed, promptSample,
          calls, files, now,
          graphDetections, locale, chartData,
          netSvgContent, netIsRendering, netInFlight, netPendingRender

\* the props, the refs and the memoised definitions
memoVars == <<detections, isActive, idCache, idCounter, pendingReset, procDef, netDef>>
\* the state of the render effect of ProcessChain
viewVars == <<svgContent, isRendering, inFlight, pendingRender>>

\* the component ProcessChain (and the memo of NetworkChain)
chainVars == <<memoVars, viewVars>>
\* the detections of App with its unique filter, and the sample that the
\* analysis server put into its last prompt
appVars == <<appDetections, uniqueField, uniqueFilterEnabled, displayDetections,
             analyzed, promptSample>>

\* the analysis server: the calls of the inference function in the order of
\* their requests, the temp prompt files on disk, and the clock Date.now()
serverVars == <<calls, files, now>>

\* the component TelemetryGraph: its detections prop, the locale of the
\* browser and the memoised chartData
graphVars == <<graphDetections, locale, chartData>>

\* the state of the render effect of NetworkChain
netViewVars == <<netSvgContent, netIsRendering, netInFlight, netPendingRender>>

vars == <<chainVars, appVars, serverVars, graphVars, netViewVars>>

\* ------------------------------------------------------------------ bounds
\* longest hand-written batch of detection records
MaxLen == 2
\* number of records a generated batch holds beyond a program limit
Extra == 1
\* most calls of mermaid.render that have not settled yet
MaxInFlight == 2
\* most requests the analysis server receives in one behaviour
MaxCalls == 2
\* the last value of the millisecond clock
MaxNow == 1

\* ------------------------------------------------------- program constants
\* detections.slice(0, 150)
SampleLimit == 150
\* if (edges.size > 100) return
EdgeCap == 100
\* .filter(...).slice(0, 50)
NetworkLimit == 50
\* formatPrompt(detections, limit = 200)
PromptLimit == 200
\* detections.slice(0, 1) in analyzeDetections
ClientSample == 1
\* .slice(-30) of chartData
ChartLimit == 30

\* the value of useMemo when there is no graph
Null == [kind |-> "null"]
\* the outcome of a useMemo callback that ended in a TypeError
Thrown == [kind |-> "throw"]

\* const x = v; return F(x): v is computed once and F gets its value
Bind(v, F(_)) == CHOOSE r \in {F(x) : x \in {v}} : TRUE

\* ------------------------------------------------------------ JS strings
DigitChar == <<"0", "1", "2", "3", "4", "5", "6", "7", "8", "9">>

RECURSIVE NumStr(_)
\* template conversion of a non-negative integer: `${n}`
NumStr(n) ==
  IF n < 10 THEN <<DigitChar[n + 1]>>
  ELSE NumStr(n \div 10) \o <<DigitChar[(n % 10) + 1]>>

UpperChars == <<"A", "B", "C", "D", "E", "F", "G", "H", "I", "J", "K", "L", "M",
                "N", "O", "P", "Q", "R", "S", "T", "U", "V", "W", "X", "Y", "Z">>
LowerChars == <<"a", "b", "c", "d", "e", "f", "g", "h", "i", "j", "k", "l", "m",
                "n", "o", "p", "q", "r", "s", "t", "u", "v", "w", "x", "y", "z">>

\* the lower-case letter of every upper-case letter
ToLower ==
  [c \in {UpperChars[j] : j \in 1..26} |->
     LowerChars[CHOOSE j \in 1..26 : UpperChars[j] = c]]

\* String.prototype.toLowerCase
toLowerCase(s) ==
  [i \in 1..Len(s) |-> IF s[i] \in DOMAIN ToLower THEN ToLower[s[i]] ELSE s[i]]

\* String.prototype.toUpperCase
toUpperCase(s) ==
  [i \in 1..Len(s) |->
     IF \E j \in 1..26 : LowerChars[j] = s[i]
     THEN UpperChars[CHOOSE j \in 1..26 : LowerChars[j] = s[i]]
     ELSE s[i]]

\* String.prototype.endsWith
endsWith(s, suffix) ==
  /\ Len(suffix) <= Len(s)
  /\ SubSeq(s, Len(s) - Len(suffix) + 1, Len(s)) = suffix

\* String.prototype.includes
includes(s, part) ==
  \E i \in 1..(Len(s) + 1) :
     /\ i + Len(part) - 1 <= Len(s)
     /\ SubSeq(s, i, i + Len(part) - 1) = part

WhiteSpace == {" ", "\n", "\t", "\r"}

\* String.prototype.trim
trim(s) ==
  IF \A i \in 1..Len(s) : s[i] \in WhiteSpace THEN <<>>
  ELSE LET first == CHOOSE i \in 1..Len(s) :
                      /\ s[i] \notin WhiteSpace
                      /\ \A j \in 1..(i - 1) : s[j] \in WhiteSpace
           last  == CHOOSE i \in 1..Len(s) :
                      /\ s[i] \notin WhiteSpace
                      /\ \A j \in (i + 1)..Len(s) : s[j] \in WhiteSpace
       IN SubSeq(s, first, last)

\* path.split(/[\\/]/).pop()
LastSegment(path) ==
  LET seps == {i \in 1..Len(path) : path[i] \in {"/", "\\"}}
      cut  == IF seps = {} THEN 0 ELSE CHOOSE i \in seps : \A j \in seps : j <= i
  IN SubSeq(path, cut + 1, Len(path))

\* .replace(/"/g, "'")
ReplaceQuotes(s) == [i \in 1..Len(s) |-> IF s[i] = "\"" THEN "'" ELSE s[i]]

carveString(path) ==
  LET seg == LastSegment(path)
  IN trim(ReplaceQuotes(IF seg # <<>> THEN seg ELSE path))

getIcon(path) ==
  LET lower == toLowerCase(path)
  IN IF endsWith(lower, <<".", "e", "x", "e">>) THEN <<"(gear)", " ">>
     ELSE IF endsWith(lower, <<".", "d", "l", "l">>) THEN <<"(package)", " ">>
     ELSE IF \/ endsWith(lower, <<".", "p", "s", "1">>)
             \/ endsWith(lower, <<".", "p", "s", "m", "1">>) THEN <<"(shell)", " ">>
     ELSE IF endsWith(lower, <<".", "j", "s">>) THEN <<"(scroll)", " ">>
     ELSE <<"(page)", " ">>

\* ------------------------------------------------------- detection records
\* A Detection is a function from the names of the fields it has to their
\* values; d.f is falsy when f is absent or the empty string (or 0).
StrField(d, f) == IF f \in DOMAIN d THEN d[f] ELSE <<>>

\* d.a || d.b || ... for string fields: the first truthy one, else ""
RECURSIVE FirstOf(_, _)
FirstOf(d, fs) ==
  IF fs = <<>> THEN <<>>
  ELSE IF StrField(d, Head(fs)) # <<>> THEN StrField(d, Head(fs))
  ELSE FirstOf(d, Tail(fs))

\* typeof (d.a || d.b || ...) === "string": a field of the chain is truthy, or
\* the last one is there (and empty); otherwise the value is undefined
IsStr(d, fs) == FirstOf(d, fs) # <<>> \/ fs[Len(fs)] \in DOMAIN d

\* ---------------------------------------------------------------- JS Map
MapHas(m, k) == \E i \in 1..Len(m) : m[i][1] = k
MapGet(m, k) == m[CHOOSE i \in 1..Len(m) : m[i][1] = k][2]
\* Map.prototype.set: a new key is appended, an old key keeps its position
MapSet(m, k, v) ==
  IF MapHas(m, k)
  THEN [i \in 1..Len(m) |-> IF m[i][1] = k THEN <<k, v>> ELSE m[i]]
  ELSE Append(m, <<k, v>>)
\* Set.prototype.add
SetAdd(s, e) == IF \E i \in 1..Len(s) : s[i] = e THEN s ELSE Append(s, e)

\* ------------------------------------------------- ProcessChain (App.tsx)
\* getSafeId: st.cache is idCache.current, st.counter is idCounter.current;
\* the identifier of the key is left in st.id
getSafeId(st, key) ==
  IF MapHas(st.cache, key)
  THEN [st EXCEPT !.id = MapGet(st.cache, key)]
  ELSE [st EXCEPT !.cache = Append(st.cache, <<key, <<"n">> \o NumStr(st.counter)>>),
                  !.counter = st.counter + 1,
                  !.id = <<"n">> \o NumStr(st.counter)]

\* const id = getSafeId(key); nodes.set(id, label); nothing runs after a throw
NodeSet(st, key, label) ==
  IF st.thrown THEN st
  ELSE Bind(key, LAMBDA k :
         Bind(getSafeId(st, k), LAMBDA s : [s EXCEPT !.nodes = MapSet(s.nodes, s.id, label)]))

\* const id = getSafeId(key); nodes.set(id, <label of v>) where the label
\* calls v.split or v.toLowerCase on v = d.a || d.b || ...: a TypeError when
\* v is undefined, after getSafeId has run
NodeSetOf(st, d, fs, key, label) ==
  IF st.thrown THEN st
  ELSE IF IsStr(d, fs) THEN NodeSet(st, key, label)
  ELSE Bind(getSafeId(st, key), LAMBDA s : [s EXCEPT !.thrown = TRUE])

\* `${from} --> ${to}`
ProcEdge(from, to) == from \o <<" ", "-", "-", ">", " ">> \o to

\* edges.add(`${from} --> ${to}`)
AddProcEdge(st, from, to) ==
  IF st.thrown THEN st
  ELSE Bind(ProcEdge(from, to), LAMBDA e : [st EXCEPT !.edges = SetAdd(st.edges, e)])

UserFields   == <<"objectUser", "suser">>
ParentFields == <<"parentFilePath", "parentProcessName", "parentName">>
ProcessFields == <<"processName">>
ObjectFields == <<"objectFilePath", "objectName">>
CmdFields    == <<"objectCmd", "processCmd">>

\* d.objectUser || d.suser || "System"
ProcUser(d) ==
  LET u == FirstOf(d, UserFields)
  IN IF u # <<>> THEN u ELSE <<"S", "y", "s", "t", "e", "m">>
\* d.parentFilePath || d.parentProcessName || d.parentName
ProcParent(d) == FirstOf(d, ParentFields)
\* d.processName
ProcProcess(d) == FirstOf(d, ProcessFields)
\* d.objectFilePath || d.objectName
ProcObject(d) == FirstOf(d, ObjectFields)
\* d.objectCmd || d.processCmd
ProcObjectCmd(d) == FirstOf(d, CmdFields)

UserKey(user)     == <<"u", "_">> \o user
ParentKey(parent) == <<"p", "_">> \o parent
ProcessKeyM(proc) == <<"p", "_">> \o proc
ProcessKey(proc)  == <<"p", "r", "_">> \o proc
ObjectKey(object) == <<"o", "b", "j", "_">> \o object
CmdKey(cmd)       == <<"c", "m", "d", "_">> \o cmd

UserLabel(user)     == <<"(user)", " ">> \o user
ParentLabel(parent) == <<"(gear)", " ">> \o carveString(parent)
ProcessLabel(proc)  == getIcon(proc) \o carveString(proc)
ObjectLabel(object) == <<"(page)", " ">> \o carveString(object)
CmdLabel(cmd)       == <<"(gear)", " ">> \o carveString(cmd)

\* a command branch without the test of objectCmd
ProcCmdBranchM(st, d, processId) ==
  Bind(NodeSetOf(st, d, CmdFields, CmdKey(ProcObjectCmd(d)), CmdLabel(ProcObjectCmd(d))), LAMBDA s :
    AddProcEdge(s, processId, s.id))

\* the command branch under the process node processId
ProcCmdBranch(st, d, processId) ==
  IF ProcObjectCmd(d) # <<>>
  THEN Bind(NodeSetOf(st, d, CmdFields, CmdKey(ProcObjectCmd(d)), CmdLabel(ProcObjectCmd(d))), LAMBDA s :
         AddProcEdge(s, processId, s.id))
  ELSE st

\* the object and command branches under the process node processId
ProcBranches(st, d, processId) ==
  IF ProcObject(d) # <<>>
  THEN Bind(NodeSetOf(st, d, ObjectFields, ObjectKey(ProcObject(d)), ObjectLabel(ProcObject(d))), LAMBDA s :
         Bind(AddProcEdge(s, processId, s.id), LAMBDA sO : ProcCmdBranch(sO, d, processId)))
  ELSE ProcCmdBranch(st, d, processId)

\* the process node under the node fromId, with its edge and branches
ProcProcessStage(st, d, fromId) ==
  Bind(NodeSetOf(st, d, ProcessFields, ProcessKey(ProcProcess(d)), ProcessLabel(ProcProcess(d))), LAMBDA sR :
    Bind(AddProcEdge(sR, fromId, sR.id), LAMBDA sE : ProcBranches(sE, d, sR.id)))

\* the edge cutoff tested at the start of every record
EdgeCapReached(edges) == Len(edges) > EdgeCap

\* the body of telemetryBatch.forEach(d => ...)
ProcRecord(st, d) ==
  IF st.thrown \/ EdgeCapReached(st.edges) THEN st
  ELSE
    Bind(NodeSet(st, UserKey(ProcUser(d)), UserLabel(ProcUser(d))), LAMBDA sU :
      IF ProcParent(d) # <<>>
      THEN Bind(NodeSetOf(sU, d, ParentFields, ParentKey(ProcParent(d)), ParentLabel(ProcParent(d))), LAMBDA sP0 :
             Bind(AddProcEdge(sP0, sU.id, sP0.id), LAMBDA sP :
               IF ProcProcess(d) # <<>> THEN ProcProcessStage(sP, d, sP0.id) ELSE sP))
      ELSE IF ProcProcess(d) # <<>> THEN ProcProcessStage(sU, d, sU.id)
      ELSE sU)

RECURSIVE ProcRange(_, _, _, _)
\* the records batch[lo..hi] in order: the range is halved, and the state
\* after the left half is computed before the right half starts
ProcRange(st, batch, lo, hi) ==
  IF lo > hi THEN st
  ELSE IF lo = hi THEN ProcRecord(st, batch[lo])
  ELSE LET mid == (lo + hi) \div 2
       IN Bind(ProcRange(st, batch, lo, mid), LAMBDA left : ProcRange(left, batch, mid + 1, hi))

\* telemetryBatch.forEach(d => ...)
ProcForEach(st, batch) == ProcRange(st, batch, 1, Len(batch))

\* a sample that is one record too long
telemetryBatchM(dets) ==
  SubSeq(dets, 1, IF Len(dets) < SampleLimit + 1 THEN Len(dets) ELSE SampleLimit + 1)

\* detections.slice(0, 150)
telemetryBatch(dets) == SubSeq(dets, 1, IF Len(dets) < SampleLimit THEN Len(dets) ELSE SampleLimit)

\* a guard that wants both conditions
ProcNoGraphM(dets, act) == ~act /\ Len(dets) = 0

\* if (!isActive || detections.length === 0) return null
ProcNoGraph(dets, act) == ~act \/ Len(dets) = 0

\* the useMemo callback of ProcessChain, run with the ref contents
\* (cache, counter); .def is its value, .cache and .counter the refs after
ProcMermaid(dets, act, cache, counter) ==
  IF ProcNoGraph(dets, act)
  THEN [def |-> Null, cache |-> cache, counter |-> counter]
  ELSE Bind([cache |-> cache, counter |-> counter,
             nodes |-> <<>>, edges |-> <<>>, id |-> <<>>, thrown |-> FALSE], LAMBDA st0 :
       Bind(telemetryBatch(dets), LAMBDA batch :
       Bind(ProcForEach(st0, batch), LAMBDA st :
         [def |-> IF st.thrown THEN Thrown
                  ELSE IF Len(st.nodes) = 0 THEN Null
                  ELSE [kind |-> "graph", nodes |-> st.nodes, edges |-> st.edges],
          cache |-> st.cache, counter |-> st.counter])))

\* the text of the definition: "graph LR", then one line per node, then
\* one line per edge
ProcDefText(g) ==
  <<<<"g", "r", "a", "p", "h", " ", "L", "R">>>>
  \o [i \in 1..Len(g.nodes) |->
        <<" ", " ", " ", " ">> \o g.nodes[i][1] \o <<"[", "\"">> \o g.nodes[i][2] \o <<"\"", "]">>]
  \o [i \in 1..Len(g.edges) |-> <<" ", " ", " ", " ">> \o g.edges[i]]

\* --------------------------------------- NetworkChain (NetworkChain.tsx)
\* d.score || 0
NumField(d, f) == IF f \in DOMAIN d THEN d[f] ELSE 0

\* d.f || fallback
OrElse(d, f, fallback) == IF StrField(d, f) # <<>> THEN StrField(d, f) ELSE fallback

getBrowser(ua) ==
  IF includes(ua, <<"E", "d", "g">>) THEN <<"E", "d", "g", "e", " ", "B", "r", "o", "w", "s", "e", "r">>
  ELSE IF includes(ua, <<"C", "h", "r", "o", "m", "e">>) THEN <<"C", "h", "r", "o", "m", "e", " ", "B", "r", "o", "w", "s", "e", "r">>
  ELSE IF includes(ua, <<"F", "i", "r", "e", "f", "o", "x">>) THEN <<"F", "i", "r", "e", "f", "o", "x">>
  ELSE IF includes(ua, <<"S", "a", "f", "a", "r", "i">>) THEN <<"S", "a", "f", "a", "r", "i">>
  ELSE <<"G", "e", "n", "e", "r", "i", "c", " ", "B", "r", "o", "w", "s", "e", "r">>

getRiskM(score) ==
  IF score > 90 THEN <<"(red)">> \o <<" ", "H", "i", "g", "h", " ", "R", "i", "s", "k">>
  ELSE IF score >= 70 THEN <<"(yellow)">> \o <<" ", "M", "e", "d", "i", "u", "m", " ", "R", "i", "s", "k">>
  ELSE <<"(green)">> \o <<" ", "L", "o", "w", " ", "R", "i", "s", "k">>

getRisk(score) ==
  IF score >= 90 THEN <<"(red)">> \o <<" ", "H", "i", "g", "h", " ", "R", "i", "s", "k">>
  ELSE IF score >= 70 THEN <<"(yellow)">> \o <<" ", "M", "e", "d", "i", "u", "m", " ", "R", "i", "s", "k">>
  ELSE <<"(green)">> \o <<" ", "L", "o", "w", " ", "R", "i", "s", "k">>

getActLabel(act) ==
  LET a == toLowerCase(act)
  IN IF a = <<"a", "l", "l", "o", "w">> THEN <<"(check)">> \o <<" ", "A", "L", "L", "O", "W", "E", "D">>
     ELSE IF a = <<"b", "l", "o", "c", "k">> THEN <<"(cross)">> \o <<" ", "B", "L", "O", "C", "K", "E", "D">>
     ELSE IF a = <<"a", "l", "e", "r", "t">> THEN <<"(warning)">> \o <<" ", "A", "L", "E", "R", "T", "E", "D">>
     ELSE IF toUpperCase(act) # <<>> THEN toUpperCase(act)
     ELSE <<"U", "N", "K", "N", "O", "W", "N">>

getPolicyClass(act) ==
  LET a == toLowerCase(act)
  IN IF a = <<"a", "l", "l", "o", "w">> THEN "allowNode"
     ELSE IF a = <<"b", "l", "o", "c", "k">> THEN "blockNode"
     ELSE IF a = <<"a", "l", "e", "r", "t">> THEN "alertNode"
     ELSE "policyNode"

NetUser(d)   == LET u == FirstOf(d, <<"principalName", "suid">>)
                IN IF u # <<>> THEN u ELSE <<"A", "n", "o", "n", "y", "m", "o", "u", "s">>
NetHost(d)   == OrElse(d, "endpointHostName", <<"U", "n", "k", "n", "o", "w", "n", " ", "H", "o", "s", "t">>)
NetUa(d)     == OrElse(d, "userAgent", <<>>)
NetOs(d)     == OrElse(d, "osName", <<"U", "n", "k", "n", "o", "w", "n", " ", "O", "S">>)
NetReqBase(d) == OrElse(d, "requestBase", <<"u", "n", "k", "n", "o", "w", "n", ".", "d", "o", "m", "a", "i", "n">>)
NetReqMethod(d) == OrElse(d, "requestMethod", <<"G", "E", "T">>)
NetDstIp(d)  == OrElse(d, "dst", <<"0", ".", "0", ".", "0", ".", "0">>)
NetDstLoc(d) == OrElse(d, "dstLocation", <<"I", "N", "T">>)
NetTls(d)    == OrElse(d, "serverTls", <<"N", "o", " ", "T", "L", "S">>)
NetAction(d) == OrElse(d, "act", <<"A", "l", "l", "o", "w">>)
NetRule(d)   == OrElse(d, "ruleName", <<"D", "e", "f", "a", "u", "l", "t", " ", "R", "u", "l", "e">>)
NetCat(d)    == OrElse(d, "urlCat", <<"M", "i", "s", "c", "e", "l", "l", "a", "n", "e", "o", "u", "s">>)
NetScore(d)  == NumField(d, "score")

Br == <<"<", "b", "r", "/", ">">>
Us == <<"_">>

NetUserKey(d)    == <<"u", "_">> \o NetUser(d) \o Us \o NetHost(d)
NetBrowserKey(d) == <<"b", "_">> \o NetUa(d) \o Us \o NetOs(d)
NetReqKey(d)     == <<"r", "_">> \o NetReqMethod(d) \o Us \o NetReqBase(d)
NetDestKey(d)    == <<"d", "_">> \o NetDstIp(d)
NetPolicyKey(d)  == <<"p", "_">> \o NetAction(d) \o Us \o NetRule(d) \o Us
                    \o NumStr(NetScore(d)) \o Us \o NetCat(d)

NetUserLabel(d)    == <<"(user)", " ">> \o NetUser(d) \o Br \o NetHost(d)
NetBrowserLabel(d) == <<"(globe)", " ">> \o getBrowser(NetUa(d)) \o Br \o NetOs(d)
NetReqLabel(d)     == <<"(envelope)", " ">> \o NetReqMethod(d) \o <<" ">> \o NetReqBase(d)
NetDestLabel(d)    == <<"(pin)", " ">> \o NetDstIp(d) \o Br \o NetDstLoc(d)
                      \o <<" ", "(middot)", " ">> \o NetTls(d)
NetPolicyLabel(d)  == <<"(shield)", " ">> \o getActLabel(NetAction(d)) \o Br \o NetRule(d)
                      \o Br \o NetCat(d) \o <<" ", "(middot)", " ">> \o <<"S", "c", "o", "r", "e", ":", " ">>
                      \o NumStr(NetScore(d)) \o <<" ", "(">> \o getRisk(NetScore(d)) \o <<")">>

\* `${from} -->|${text}| ${to}`
NetEdge(from, text, to) == from \o <<" ", "-", "-", ">", "|">> \o text \o <<"|", " ">> \o to

\* const id = getSafeId(key); nodes.set(id, label); nodeClasses.set(id, cls)
NetNodeSet(st, key, label, cls) ==
  Bind(NodeSet(st, key, label), LAMBDA s : [s EXCEPT !.classes = MapSet(s.classes, s.id, cls)])

\* edges.add(`${from} -->|${text}| ${to}`)
AddNetEdge(st, from, text, to) ==
  IF st.thrown THEN st
  ELSE Bind(NetEdge(from, text, to), LAMBDA e : [st EXCEPT !.edges = SetAdd(st.edges, e)])

\* the body of networkBatch.forEach(d => ...)
NetRecord(st, d) ==
  Bind(NetNodeSet(st, NetUserKey(d), NetUserLabel(d), "userNode"), LAMBDA sU :
  Bind(NetNodeSet(sU, NetBrowserKey(d), NetBrowserLabel(d), "browserNode"), LAMBDA sB :
  Bind(NetNodeSet(sB, NetReqKey(d), NetReqLabel(d), "requestNode"), LAMBDA sR :
  Bind(NetNodeSet(sR, NetDestKey(d), NetDestLabel(d), "destNode"), LAMBDA sD :
  Bind(NetNodeSet(sD, NetPolicyKey(d), NetPolicyLabel(d), getPolicyClass(NetAction(d))), LAMBDA sP :
  Bind(AddNetEdge(sP, sU.id, <<"U", "s", "e", "r", " ", "A", "c", "t", "i", "v", "i", "t", "y">>, sB.id), LAMBDA e1 :
  Bind(AddNetEdge(e1, sB.id, <<"B", "r", "o", "w", "s", "e", "r", " ", "R", "e", "q", "u", "e", "s", "t">>, sR.id), LAMBDA e2 :
  Bind(AddNetEdge(e2, sR.id, <<"N", "e", "t", "w", "o", "r", "k", " ", "T", "r", "a", "f", "f", "i", "c">>, sD.id), LAMBDA e3 :
    AddNetEdge(e3, sD.id, <<"P", "o", "l", "i", "c", "y", " ", "E", "v", "a", "l", "u", "a", "t", "i", "o", "n">>, sP.id)))))))))

RECURSIVE NetRange(_, _, _, _)
\* the records batch[lo..hi] in order
NetRange(st, batch, lo, hi) ==
  IF lo > hi THEN st
  ELSE IF lo = hi THEN NetRecord(st, batch[lo])
  ELSE LET mid == (lo + hi) \div 2
       IN Bind(NetRange(st, batch, lo, mid), LAMBDA left : NetRange(left, batch, mid + 1, hi))

\* networkBatch.forEach(d => ...)
NetForEach(st, batch) == NetRange(st, batch, 1, Len(batch))

\* d => d.request || d.dst || d.principalName
IsNetworkLog(d) == FirstOf(d, <<"request", "dst", "principalName">>) # <<>>

\* a sample that is one record too long
networkBatchM(dets) ==
  LET logs == SelectSeq(dets, IsNetworkLog)
  IN SubSeq(logs, 1, IF Len(logs) < NetworkLimit + 1 THEN Len(logs) ELSE NetworkLimit + 1)

\* detections.filter(...).slice(0, 50)
networkBatch(dets) ==
  LET logs == SelectSeq(dets, IsNetworkLog)
  IN SubSeq(logs, 1, IF Len(logs) < NetworkLimit THEN Len(logs) ELSE NetworkLimit)

\* if (!isActive || detections.length === 0) return null
NetNoGraph(dets, act) == ~act \/ Len(dets) = 0

\* the locals of the useMemo callback of NetworkChain after the loop over
\* batch: keyToId (cache), idCounter, nodes, nodeClasses and edges
NetCompile(batch) ==
  Bind([cache |-> <<>>, counter |-> 0, nodes |-> <<>>,
        classes |-> <<>>, edges |-> <<>>, id |-> <<>>, thrown |-> FALSE], LAMBDA st0 :
    NetForEach(st0, batch))

\* the useMemo callback of NetworkChain
NetMermaid(dets, act) ==
  IF NetNoGraph(dets, act) THEN Null
  ELSE Bind(networkBatch(dets), LAMBDA batch :
    IF Len(batch) = 0 THEN Null
    ELSE Bind(NetCompile(batch), LAMBDA st :
           [kind |-> "graph", nodes |-> st.nodes, classes |-> st.classes,
            edges |-> st.edges]))

Indent == <<" ", " ", " ", " ">>

\* one of the eight classDef lines (the style text is one character)
ClassDefLine(cls) == Indent \o <<"c", "l", "a", "s", "s", "D", "e", "f", " ", cls, " ", "(style)">>

\* the text of the definition: "graph TD", the classDef lines, one line per
\* node, one class line per node that has a class, one line per edge
NetDefText(g) ==
  <<<<"g", "r", "a", "p", "h", " ", "T", "D">>,
    ClassDefLine("userNode"), ClassDefLine("browserNode"), ClassDefLine("requestNode"),
    ClassDefLine("destNode"), ClassDefLine("policyNode"), ClassDefLine("allowNode"),
    ClassDefLine("blockNode"), ClassDefLine("alertNode")>>
  \o [i \in 1..Len(g.nodes) |->
        Indent \o g.nodes[i][1] \o <<"[", "\"">> \o g.nodes[i][2] \o <<"\"", "]">>]
  \o [i \in 1..Len(SelectSeq(g.nodes, LAMBDA n : MapHas(g.classes, n[1]))) |->
        Bind(SelectSeq(g.nodes, LAMBDA n : MapHas(g.classes, n[1]))[i][1], LAMBDA id :
          Indent \o <<"c", "l", "a", "s", "s", " ">> \o id \o <<" ", MapGet(g.classes, id), ";">>)]
  \o [i \in 1..Len(g.edges) |-> Indent \o g.edges[i]]

\* ------------------------------------------------------------------ inputs
\* the simple chain: actor, parent, process by path, object
RecChain == [suser |-> <<"a", "l", "i", "c", "e">>, parentFilePath |-> <<"C", ":", "\\", "W", "i", "n", "\\", "e", "x", "p", "l", "o", "r", "e", "r", ".", "e", "x", "e">>,
             processFilePath |-> <<"C", ":", "\\", "W", "i", "n", "\\", "c", "m", "d", ".", "e", "x", "e">>, objectFilePath |-> <<"C", ":", "\\", "t", "m", "p", "\\", "a", ".", "t", "x", "t">>]
\* no parent, process by path, object
RecNoParent == [suser |-> <<"b", "o", "b">>, processFilePath |-> <<"p", ".", "e", "x", "e">>, objectFilePath |-> <<"o", ".", "t", "x", "t">>]
\* no parent, process by name, object and command line
RecNamed == [suser |-> <<"b", "o", "b">>, processName |-> <<"s", "v", "c", ".", "e", "x", "e">>, objectFilePath |-> <<"o", ".", "t", "x", "t">>,
             objectCmd |-> <<"r", "u", "n", " ", "-", "x">>]
ProcRecords == {RecChain, RecNoParent, RecNamed}

\* a record with no field either chain uses
RecBare == [uuid |-> <<"1">>]
\* two web-gateway records with the same destination address
RecNetA == [principalName |-> <<"c", "a", "r", "o", "l">>, dst |-> <<"1", "0", ".", "0", ".", "0", ".", "1">>, dstLocation |-> <<"U", "S">>,
            act |-> <<"b", "l", "o", "c", "k">>, score |-> 92]
RecNetB == [principalName |-> <<"c", "a", "r", "o", "l">>, dst |-> <<"1", "0", ".", "0", ".", "0", ".", "1">>, dstLocation |-> <<"D", "E">>,
            serverTls |-> <<"T", "L", "S", " ", "1", ".", "3">>, score |-> 75]
NetRecords == {RecBare, RecNetA, RecNetB}

SeqsUpTo(S, n) == UNION {[1..k -> S] : k \in 0..n}

\* the i-th record of a generated batch: every field value is its own
GenChain(i) == [suser |-> <<"u">> \o NumStr(i), parentFilePath |-> <<"p">> \o NumStr(i),
                processName |-> <<"r">> \o NumStr(i), objectFilePath |-> <<"o">> \o NumStr(i),
                objectCmd |-> <<"c">> \o NumStr(i)]
GenNet(i) == [principalName |-> <<"w">> \o NumStr(i), dst |-> <<"1", "0", ".", "0", ".", "1", ".">> \o NumStr(i)]

\* the number of records of four fresh edges each that pass the edge cutoff
CapRecords == (EdgeCap \div 4) + 1

\* n records of four fresh edges each
EdgeBatch(n) == [i \in 1..n |-> GenChain(i)]
\* SampleLimit copies of record d, then Extra generated records
LongBatch(d) == [i \in 1..(SampleLimit + Extra) |-> IF i <= SampleLimit THEN d ELSE GenChain(i)]
\* lead records that are no network logs, then NetworkLimit copies of RecNetA,
\* then Extra generated network logs
LongNetBatch(lead) ==
  [i \in 1..(lead + NetworkLimit + Extra) |->
     IF i <= lead THEN RecBare
     ELSE IF i <= lead + NetworkLimit THEN RecNetA
     ELSE GenNet(i)]

\* a record with a field of every stage of the process chain
RecFull == [suser |-> <<"d", "a", "n">>, parentFilePath |-> <<"C", ":", "\\", "i", "n", "i", "t", ".", "e", "x", "e">>,
            processName |-> <<"r", "u", "n", ".", "p", "s", "1">>, objectFilePath |-> <<"/", "t", "m", "p", "/", "x", ".", "d", "l", "l">>,
            processCmd |-> <<"r", "u", "n", " ", "/", "q">>]
\* a record with fields of the network chain
RecFullNet == [principalName |-> <<"f", "a", "y">>, dst |-> <<"1", "0", ".", "0", ".", "0", ".", "9">>,
               userAgent |-> <<"C", "h", "r", "o", "m", "e", "/", "1">>, act |-> <<"A", "l", "e", "r", "t">>]
\* the record r with only the fields of S
Restrict(r, S) == [f \in S |-> r[f]]
\* the sparse records: RecFull or RecFullNet with any subset of the fields left out
SparseRecords ==
  {Restrict(RecFull, S) : S \in SUBSET (DOMAIN RecFull)}
  \cup {Restrict(RecFullNet, S) : S \in SUBSET (DOMAIN RecFullNet)}

\* records whose values hold a double quote or a newline
RecQuoted == [suser |-> <<"a", "\"", "b">>, processName |-> <<"s", "\"", "v", ".", "e", "x", "e">>]
RecNewline == [suser |-> <<"e", "v", "e">>, processName |-> <<"s", "h", ".", "e", "x", "e">>,
               objectCmd |-> <<"a", "\n", "b">>]
RecNetQuoted == [principalName |-> <<"c", "\"", "d">>, dst |-> <<"1", "0", ".", "0", ".", "0", ".", "2">>,
                 ruleName |-> <<"r", "\n", "s">>]
TextRecords == {RecQuoted, RecNewline, RecNetQuoted}

\* the batches of one sparse record or one record with special characters
FieldBatches == {<<d>> : d \in SparseRecords \cup TextRecords}

\* the hand-written batches: every sequence of up to MaxLen records
Batches == SeqsUpTo(ProcRecords, MaxLen) \cup SeqsUpTo(NetRecords, MaxLen)

\* the batches that reach the sampling limits and the edge cutoff
LimitBatches ==
  {<<>>, <<RecNamed>>, <<RecNetA>>,
   EdgeBatch(CapRecords - 1), EdgeBatch(CapRecords), EdgeBatch(CapRecords + Extra),
   LongBatch(RecBare), LongBatch(RecNamed),
   LongNetBatch(0), LongNetBatch(1), LongNetBatch(NetworkLimit)}

\* ------------------------------------------------------- deduplication
\* detection.processName || detection.processFilePath || ''
PromptKey(d) == FirstOf(d, <<"processName", "processFilePath">>)

\* without seenProcessNames.add: a detection is compared with no earlier one
PromptStepM(st, d) ==
  Bind(PromptKey(d), LAMBDA processName :
    IF \E i \in 1..Len(st.seen) : st.seen[i] = processName THEN st
    ELSE [st EXCEPT !.unique = Append(st.unique, d)])

\* the body of `for (const detection of detections)` in formatPrompt
PromptStep(st, d) ==
  Bind(PromptKey(d), LAMBDA processName :
    IF \E i \in 1..Len(st.seen) : st.seen[i] = processName THEN st
    ELSE [seen |-> Append(st.seen, processName), unique |-> Append(st.unique, d)])

RECURSIVE PromptRange(_, _, _, _)
\* the detections xs[lo..hi] in order
PromptRange(st, xs, lo, hi) ==
  IF lo > hi THEN st
  ELSE IF lo = hi THEN PromptStep(st, xs[lo])
  ELSE LET mid == (lo + hi) \div 2
       IN Bind(PromptRange(st, xs, lo, mid), LAMBDA left : PromptRange(left, xs, mid + 1, hi))

\* uniqueDetections of formatPrompt after the loop
PromptUnique(xs) == PromptRange([seen |-> <<>>, unique |-> <<>>], xs, 1, Len(xs)).unique

\* a slice that starts one detection late
formatPromptM(xs, limit) ==
  Bind(PromptUnique(xs), LAMBDA u : SubSeq(u, 2, IF Len(u) < limit THEN Len(u) ELSE limit))

\* uniqueDetections.slice(0, limit): the detections that JSON.stringify
\* writes into the prompt, in this order
formatPrompt(xs, limit) ==
  Bind(PromptUnique(xs), LAMBDA u : SubSeq(u, 1, IF Len(u) < limit THEN Len(u) ELSE limit))

\* String(value).toLowerCase().trim()
UniqueKey(value) == trim(toLowerCase(value))

\* a filter that keeps the detections without the field
UniqueStepM(st, d, field) ==
  Bind(StrField(d, field), LAMBDA value :
    IF value = <<>> THEN [st EXCEPT !.unique = Append(st.unique, d)]
    ELSE Bind(UniqueKey(value), LAMBDA key :
           IF \E i \in 1..Len(st.seen) : st.seen[i] = key THEN st
           ELSE [seen |-> Append(st.seen, key), unique |-> Append(st.unique, d)]))

\* the body of `for (const detection of filteredDetections)` in App
UniqueStep(st, d, field) ==
  Bind(StrField(d, field), LAMBDA value :
    IF value = <<>> THEN st
    ELSE Bind(UniqueKey(value), LAMBDA key :
           IF \E i \in 1..Len(st.seen) : st.seen[i] = key THEN st
           ELSE [seen |-> Append(st.seen, key), unique |-> Append(st.unique, d)]))

RECURSIVE UniqueRange(_, _, _, _, _)
\* the detections xs[lo..hi] in order
UniqueRange(st, xs, field, lo, hi) ==
  IF lo > hi THEN st
  ELSE IF lo = hi THEN UniqueStep(st, xs[lo], field)
  ELSE LET mid == (lo + hi) \div 2
       IN Bind(UniqueRange(st, xs, field, lo, mid), LAMBDA left :
            UniqueRange(left, xs, field, mid + 1, hi))

\* the useMemo of uniqueDetections (filteredDetections is xs: no date filter)
uniqueDetections(xs, field, enabled) ==
  IF ~enabled \/ field = "" THEN xs
  ELSE UniqueRange([seen |-> <<>>, unique |-> <<>>], xs, field, 1, Len(xs)).unique

\* the useMemo of displayDetections
DisplayOf(xs, field, enabled) ==
  IF enabled THEN uniqueDetections(xs, field, enabled) ELSE xs

\* body.detections of analyzeDetections: detections.slice(0, 1)
ClientBody(xs) == SubSeq(xs, 1, IF Len(xs) < ClientSample THEN Len(xs) ELSE ClientSample)

\* ------------------------------------------ render effect of ProcessChain
\* useState('') of svgContent
EmptySvg == [kind |-> "empty"]
\* the markup of the catch branch: <div ...>Render Faulted</div>
FaultSvg == [kind |-> "fault"]
\* the svg that mermaid.render gives for the definition def
SvgOf(def) == [kind |-> "svg", def |-> def]

RenderFaulted == <<"R", "e", "n", "d", "e", "r", " ", "F", "a", "u", "l", "t", "e", "d">>
\* svgContent.includes('Render Faulted'): the markup of the catch branch, or
\* an svg that draws a label with these words
IncludesRenderFaulted(svg) ==
  \/ svg.kind = "fault"
  \/ svg.kind = "svg" /\ \E n \in 1..Len(svg.def.nodes) : includes(svg.def.nodes[n][2], RenderFaulted)

\* {isRendering && <overlay "Rendering Process Chain...">}
ShowsSpinner == isActive /\ isRendering
\* {!isRendering && (!svgContent || svgContent.includes('Render Faulted')) &&
\*   <overlay "No Process Chain Available">}
ShowsNoChainOverlay ==
  isActive /\ ~isRendering /\ (svgContent = EmptySvg \/ IncludesRenderFaulted(svgContent))

\* detections that differ in the fields of the deduplication keys
DSvc1 == [uuid |-> <<"1">>, processName |-> <<"s", "v", "c", ".", "e", "x", "e">>]
DCmd  == [uuid |-> <<"2">>, processName |-> <<"c", "m", "d", ".", "e", "x", "e">>,
          processFilePath |-> <<"C", ":", "\\", "c", "m", "d", ".", "e", "x", "e">>]
DSvc3 == [uuid |-> <<"3">>, processName |-> <<"s", "v", "c", ".", "e", "x", "e">>]
DNet  == [uuid |-> <<"4">>, processName |-> <<"n", "e", "t", ".", "e", "x", "e">>]
DPs   == [uuid |-> <<"5">>, processName |-> <<"p", "s", ".", "e", "x", "e">>]
\* the same process name in another case and with a blank
DSvcUp == [uuid |-> <<"6">>, processName |-> <<"S", "V", "C", ".", "e", "x", "e", " ">>]
\* the name of DSvc1 as the path
DSvcPath == [uuid |-> <<"7">>, processFilePath |-> <<"s", "v", "c", ".", "e", "x", "e">>]
\* no process field at all
DNone8 == [uuid |-> <<"8">>]
DNone9 == [uuid |-> <<"9">>, suser |-> <<"z", "o", "e">>]
DedupeRecords == {DSvc1, DSvc3, DSvcUp, DSvcPath, DNone8, DNone9, DCmd}

\* five detections of which the first and the third share processName
Scenario5 == <<DSvc1, DCmd, DSvc3, DNet, DPs>>
\* the i-th of many detections: i = 2 repeats the process of i = 1
GenProc(i) == [uuid |-> NumStr(i), processName |-> <<"g">> \o NumStr(IF i = 2 THEN 1 ELSE i)]
\* more detections with a process of their own than the prompt takes
LongPrompt == [i \in 1..(PromptLimit + Extra + 1) |-> GenProc(i)]

AppBatches == SeqsUpTo(DedupeRecords, MaxLen) \cup {Scenario5}
\* the batches that reach the limit of the prompt
LimitAppBatches ==
  {<<>>, <<DSvc1>>, <<DNone8>>, <<DSvc1, DSvc3>>, <<DCmd, DSvc1>>, <<DSvcPath, DSvc1>>,
   <<DNone8, DNone9>>, <<DSvc1, DNone8, DSvcUp>>, Scenario5, LongPrompt}
\* the options of the "Deduplicate By" select
UniqueFields == {"processFilePath", "processName"}

\* ----------------------------------------------------------- state machine
\* first render of both components with the initial detections of App
\* (useState([])); the effects of the mount have not run yet
Init ==
  /\ detections = <<>>
  /\ isActive \in BOOLEAN
  /\ idCache = <<>>
  /\ idCounter = 0
  /\ pendingReset = TRUE
  /\ procDef = Null
  /\ netDef = Null
  /\ svgContent = EmptySvg
  /\ isRendering = FALSE
  /\ inFlight = {}
  /\ pendingRender = TRUE
  /\ appDetections = <<>>
  /\ uniqueField = "processFilePath"
  /\ uniqueFilterEnabled = FALSE
  /\ displayDetections = <<>>
  /\ analyzed = "none"
  /\ promptSample = <<>>
  /\ calls = <<>>
  /\ files = {}
  /\ now = 0
  /\ graphDetections = <<>>
  /\ locale = "en-US"
  /\ chartData = <<>>
  /\ netSvgContent = EmptySvg
  /\ netIsRendering = FALSE
  /\ netInFlight = <<>>
  /\ netPendingRender = TRUE

\* a re-render with the props (dets, act): both useMemo callbacks run during
\* the render; the effect with dependency [detections] is scheduled when the
\* detections prop is a new array.  React flushes the pending effects of the
\* previous render before it renders again.  A callback that throws during
\* the render unmounts the tree (there is no error boundary): nothing renders
\* after that.
RenderMemo(dets, act, newDetections) ==
  /\ ~pendingReset
  /\ procDef # Thrown
  /\ \E r \in {ProcMermaid(dets, act, idCache, idCounter)} :
        /\ procDef' = r.def
        /\ idCache' = r.cache
        /\ idCounter' = r.counter
  /\ netDef' = NetMermaid(dets, act)
  /\ detections' = dets
  /\ isActive' = act
  /\ pendingReset' = newDetections

\* the render seen through the memoised definitions alone
Render(dets, act, newDetections) ==
  /\ RenderMemo(dets, act, newDetections)
  /\ UNCHANGED viewVars
  /\ UNCHANGED appVars
  /\ UNCHANGED serverVars
  /\ UNCHANGED graphVars
  /\ UNCHANGED netViewVars

\* the parent passes a new detections array
SetDetections(b) == Render(b, isActive, TRUE)
\* the parent flips isActive
SetActive == Render(detections, ~isActive, FALSE)
\* the parent changes both props in one render
SetBoth(b) == Render(b, ~isActive, TRUE)

\* useEffect(() => { idCache.current.clear(); idCounter.current = 0 }, [detections])
ResetEffect ==
  /\ pendingReset
  /\ idCache' = <<>>
  /\ idCounter' = 0
  /\ pendingReset' = FALSE
  /\ UNCHANGED <<detections, isActive, procDef, netDef>>
  /\ UNCHANGED viewVars
  /\ UNCHANGED appVars
  /\ UNCHANGED serverVars
  /\ UNCHANGED graphVars
  /\ UNCHANGED netViewVars

Next ==
  \/ \E b \in Batches : SetDetections(b)
  \/ SetActive
  \/ \E b \in Batches : SetBoth(b)
  \/ ResetEffect

Spec == Init /\ [][Next]_vars

\* the same component driven with the batches that reach the limits
NextLimits ==
  \/ \E b \in LimitBatches : SetDetections(b)
  \/ SetActive
  \/ \E b \in LimitBatches : SetBoth(b)
  \/ ResetEffect

SpecLimits == Init /\ [][NextLimits]_vars

\* records with the same string in every stage, and one whose parent is the
\* process behind "r_"
RecSame == [suser |-> <<"x">>, parentFilePath |-> <<"x">>, processName |-> <<"x">>,
            objectFilePath |-> <<"x">>, objectCmd |-> <<"x">>]
RecPrefix == [suser |-> <<"x">>, parentFilePath |-> <<"r", "_", "x">>, processName |-> <<"x">>,
              objectFilePath |-> <<"x">>, objectCmd |-> <<"x">>]
RecSameNet == [principalName |-> <<"x">>, endpointHostName |-> <<"x">>, userAgent |-> <<"x">>,
               osName |-> <<"x">>, requestBase |-> <<"x">>, requestMethod |-> <<"x">>,
               dst |-> <<"x">>, dstLocation |-> <<"x">>, serverTls |-> <<"x">>,
               act |-> <<"x">>, ruleName |-> <<"x">>, urlCat |-> <<"x">>]
StageBatches ==
  SeqsUpTo({RecSame, RecPrefix, RecSameNet}, MaxLen)
  \cup {<<Restrict(RecSame, S)>> : S \in SUBSET (DOMAIN RecSame)}

\* the same component driven with the records of equal strings
NextStages ==
  \/ \E b \in StageBatches : SetDetections(b)
  \/ SetActive
  \/ ResetEffect

SpecStages == Init /\ [][NextStages]_vars

\* network logs whose user and host hold the separator of the keys, and one
\* that does not
RecJoinA == [principalName |-> <<"a", "_", "b">>, endpointHostName |-> <<"c">>]
RecJoinB == [principalName |-> <<"a">>, endpointHostName |-> <<"b", "_", "c">>]
RecJoinC == [principalName |-> <<"a">>, endpointHostName |-> <<"c">>]
JoinBatches == SeqsUpTo({RecJoinA, RecJoinB, RecJoinC, RecSame}, MaxLen)

\* the same component driven with the records of the separator
NextJoin ==
  \/ \E b \in JoinBatches : SetDetections(b)
  \/ SetActive
  \/ ResetEffect

SpecJoin == Init /\ [][NextJoin]_vars

\* a record whose actor closes its label and goes on with the text of an
\* edge and of a node
RecInject == [suser |-> <<"x", "\"", "]", "\n", "n", "0", " ", "-", "-", ">", " ", "n", "9",
                          "\n", "n", "8", "[", "\"", "y">>,
              processName |-> <<"s", "h", ".", "e", "x", "e">>]
InjectBatches == FieldBatches \cup {<<RecInject>>, <<RecChain, RecInject>>, <<RecNetA, RecInject>>}

\* the same component driven with the records of special characters
NextInject ==
  \/ \E b \in InjectBatches : SetDetections(b)
  \/ SetActive
  \/ ResetEffect

SpecInject == Init /\ [][NextInject]_vars

\* network logs of one user with the scores around the risk thresholds, and
\* one without a score
RiskScores == {69, 70, 89, 90}
ScoreRecords ==
  {[principalName |-> <<"c">>, score |-> n] : n \in RiskScores} \cup {[principalName |-> <<"c">>]}
RiskBatches == SeqsUpTo(ScoreRecords, MaxLen)

\* the same component driven with the scored network logs
NextRisk ==
  \/ \E b \in RiskBatches : SetDetections(b)
  \/ SetActive
  \/ ResetEffect

SpecRisk == Init /\ [][NextRisk]_vars

\* the same component driven with the sparse records
NextSparse ==
  \/ \E b \in FieldBatches : SetDetections(b)
  \/ SetActive
  \/ \E b \in FieldBatches : SetBoth(b)
  \/ ResetEffect

SpecSparse == Init /\ [][NextSparse]_vars

\* a render of ProcessChain together with its render effect: the effect with
\* dependency [mermaidDefinition] is scheduled when the definition changed
RenderView(dets, act, newDetections) ==
  /\ ~pendingRender
  /\ Cardinality(inFlight) < MaxInFlight
  /\ RenderMemo(dets, act, newDetections)
  /\ pendingRender' = (procDef' # procDef)
  /\ UNCHANGED <<svgContent, isRendering, inFlight>>
  /\ UNCHANGED appVars
  /\ UNCHANGED serverVars
  /\ UNCHANGED graphVars
  /\ UNCHANGED netViewVars

\* the cleanup of the previous effect run: isMounted = false in its closure
Cleanup(cs) == {[c EXCEPT !.isMounted = FALSE] : c \in cs}

\* the effect body up to the await: cleanup of the previous run, then
\* render() starts a call of mermaid.render when there is a definition and
\* the mermaid script is loaded
RenderEffect(loaded) ==
  /\ pendingRender
  /\ ~pendingReset
  /\ pendingRender' = FALSE
  /\ IF procDef.kind = "graph" /\ loaded
     THEN /\ isRendering' = TRUE
          /\ inFlight' = Cleanup(inFlight) \cup {[def |-> procDef, isMounted |-> TRUE]}
     ELSE /\ isRendering' = isRendering
          /\ inFlight' = Cleanup(inFlight)
  /\ UNCHANGED svgContent
  /\ UNCHANGED memoVars
  /\ UNCHANGED appVars
  /\ UNCHANGED serverVars
  /\ UNCHANGED graphVars
  /\ UNCHANGED netViewVars

\* mermaid.render resolves: the try block after the await, then finally
RenderResolved(c) ==
  /\ c \in inFlight
  /\ inFlight' = inFlight \ {c}
  /\ IF c.isMounted
     THEN svgContent' = SvgOf(c.def) /\ isRendering' = FALSE
     ELSE UNCHANGED <<svgContent, isRendering>>
  /\ UNCHANGED pendingRender
  /\ UNCHANGED memoVars
  /\ UNCHANGED appVars
  /\ UNCHANGED serverVars
  /\ UNCHANGED graphVars
  /\ UNCHANGED netViewVars

\* mermaid.render rejects: the catch block, then finally
RenderRejected(c) ==
  /\ c \in inFlight
  /\ inFlight' = inFlight \ {c}
  /\ IF c.isMounted
     THEN svgContent' = FaultSvg /\ isRendering' = FALSE
     ELSE UNCHANGED <<svgContent, isRendering>>
  /\ UNCHANGED pendingRender
  /\ UNCHANGED memoVars
  /\ UNCHANGED appVars
  /\ UNCHANGED serverVars
  /\ UNCHANGED graphVars
  /\ UNCHANGED netViewVars

\* handleFetch: setAnalysis(null), setDetections(data.items); the memos of
\* the unique filter are recomputed in the render that follows
HandleFetch(xs) ==
  /\ appDetections' = xs
  /\ displayDetections' = DisplayOf(xs, uniqueField, uniqueFilterEnabled)
  /\ analyzed' = "none"
  /\ promptSample' = <<>>
  /\ UNCHANGED <<uniqueField, uniqueFilterEnabled>>
  /\ UNCHANGED chainVars
  /\ UNCHANGED serverVars
  /\ UNCHANGED graphVars
  /\ UNCHANGED netViewVars

\* handleUniqueFieldChange
HandleUniqueFieldChange(field) ==
  /\ uniqueField' = field
  /\ displayDetections' = DisplayOf(appDetections, field, uniqueFilterEnabled)
  /\ UNCHANGED <<appDetections, uniqueFilterEnabled, analyzed, promptSample>>
  /\ UNCHANGED chainVars
  /\ UNCHANGED serverVars
  /\ UNCHANGED graphVars
  /\ UNCHANGED netViewVars

\* handleUniqueFilterToggle
HandleUniqueFilterToggle ==
  /\ uniqueFilterEnabled' = ~uniqueFilterEnabled
  /\ displayDetections' = DisplayOf(appDetections, uniqueField, ~uniqueFilterEnabled)
  /\ UNCHANGED <<appDetections, uniqueField, analyzed, promptSample>>
  /\ UNCHANGED chainVars
  /\ UNCHANGED serverVars
  /\ UNCHANGED graphVars
  /\ UNCHANGED netViewVars

\* POST /api/analyze with body.detections = body, up to the prompt: the
\* sample that formatPrompt writes into it
PostAnalyze(body, via) ==
  /\ promptSample' = formatPrompt(body, PromptLimit)
  /\ analyzed' = via
  /\ UNCHANGED <<appDetections, uniqueField, uniqueFilterEnabled, displayDetections>>
  /\ UNCHANGED chainVars
  /\ UNCHANGED serverVars
  /\ UNCHANGED graphVars
  /\ UNCHANGED netViewVars

\* handleAnalyze: analyzeDetections(detections) posts the client sample
HandleAnalyze ==
  /\ Len(appDetections) > 0
  /\ PostAnalyze(ClientBody(appDetections), "client")

\* another client posts all the detections it has
PostAll == PostAnalyze(appDetections, "post")

NextApp ==
  \/ \E xs \in AppBatches : HandleFetch(xs)
  \/ \E f \in UniqueFields : HandleUniqueFieldChange(f)
  \/ HandleUniqueFilterToggle
  \/ HandleAnalyze
  \/ PostAll

SpecApp == Init /\ [][NextApp]_vars

\* the same handlers driven with the batches that reach the prompt limit
NextAppLimits ==
  \/ \E xs \in LimitAppBatches : HandleFetch(xs)
  \/ \E f \in UniqueFields : HandleUniqueFieldChange(f)
  \/ HandleUniqueFilterToggle
  \/ HandleAnalyze
  \/ PostAll

SpecAppLimits == Init /\ [][NextAppLimits]_vars

\* the batches shown by the component with its render effect
ViewBatches == {<<>>, <<RecNamed>>, <<RecChain>>, <<RecNamed, RecChain>>}

NextView ==
  \/ \E b \in ViewBatches : RenderView(b, isActive, TRUE)
  \/ RenderView(detections, ~isActive, FALSE)
  \/ ResetEffect
  \/ \E loaded \in BOOLEAN : RenderEffect(loaded)
  \/ \E c \in inFlight : RenderResolved(c)
  \/ \E c \in inFlight : RenderRejected(c)

SpecView == Init /\ [][NextView]_vars

\* React runs a scheduled effect, and a call of mermaid.render settles
SpecViewFair ==
  /\ SpecView
  /\ WF_vars(ResetEffect)
  /\ WF_vars(\E loaded \in BOOLEAN : RenderEffect(loaded))
  /\ WF_vars(\E c \in inFlight : RenderResolved(c) \/ RenderRejected(c))

\* ------------------------------------------ render effect of NetworkChain
\* the markup of the catch branch of NetworkChain:
\* <div ...>Network Canvas Rendering Pipeline Faulted</div>
NetFaultSvg == [kind |-> "netfault"]

\* the sequence s without its element at position i
RemoveAt(s, i) == [j \in 1..(Len(s) - 1) |-> IF j < i THEN s[j] ELSE s[j + 1]]

\* a render of NetworkChain together with its render effect: the effect with
\* dependency [mermaidDefinition] is scheduled when the definition changed
NetRenderView(dets, act, newDetections) ==
  /\ ~netPendingRender
  /\ Len(netInFlight) < MaxInFlight
  /\ RenderMemo(dets, act, newDetections)
  /\ netPendingRender' = (netDef' # netDef)
  /\ UNCHANGED <<netSvgContent, netIsRendering, netInFlight>>
  /\ UNCHANGED viewVars
  /\ UNCHANGED appVars
  /\ UNCHANGED serverVars
  /\ UNCHANGED graphVars

\* window.mermaid has been seen by an earlier run of the effect: a call is in
\* flight or its outcome is shown.  The script stays loaded once it is.
MermaidSeen == netInFlight # <<>> \/ netSvgContent # EmptySvg

\* the effect body up to the await: render() starts a call of
\* mermaid.render when there is a definition and the mermaid script is
\* loaded, and clears the content otherwise.  The effect returns no cleanup.
NetRenderEffect(loaded) ==
  /\ netPendingRender
  /\ MermaidSeen => loaded
  /\ netPendingRender' = FALSE
  /\ IF netDef.kind = "graph" /\ loaded
     THEN /\ netIsRendering' = TRUE
          /\ netInFlight' = Append(netInFlight, netDef)
          /\ UNCHANGED netSvgContent
     ELSE /\ netSvgContent' = EmptySvg
          /\ UNCHANGED <<netIsRendering, netInFlight>>
  /\ UNCHANGED memoVars
  /\ UNCHANGED viewVars
  /\ UNCHANGED appVars
  /\ UNCHANGED serverVars
  /\ UNCHANGED graphVars

\* the i-th call of mermaid.render in flight resolves: the try block after
\* the await (the zoom and the pan are reset with the content), then finally
NetRenderResolved(i) ==
  /\ i \in 1..Len(netInFlight)
  /\ netInFlight' = RemoveAt(netInFlight, i)
  /\ netSvgContent' = SvgOf(netInFlight[i])
  /\ netIsRendering' = FALSE
  /\ UNCHANGED netPendingRender
  /\ UNCHANGED memoVars
  /\ UNCHANGED viewVars
  /\ UNCHANGED appVars
  /\ UNCHANGED serverVars
  /\ UNCHANGED graphVars

\* the i-th call of mermaid.render in flight rejects: the catch block, then
\* finally
NetRenderRejected(i) ==
  /\ i \in 1..Len(netInFlight)
  /\ netInFlight' = RemoveAt(netInFlight, i)
  /\ netSvgContent' = NetFaultSvg
  /\ netIsRendering' = FALSE
  /\ UNCHANGED netPendingRender
  /\ UNCHANGED memoVars
  /\ UNCHANGED viewVars
  /\ UNCHANGED appVars
  /\ UNCHANGED serverVars
  /\ UNCHANGED graphVars

\* the batches shown by NetworkChain with its render effect
NetViewBatches == {<<>>, <<RecNetA>>, <<RecNetB>>, <<RecNetA, RecNetB>>}

NextNetView ==
  \/ \E b \in NetViewBatches : NetRenderView(b, isActive, TRUE)
  \/ NetRenderView(detections, ~isActive, FALSE)
  \/ ResetEffect
  \/ \E loaded \in BOOLEAN : NetRenderEffect(loaded)
  \/ \E i \in 1..Len(netInFlight) : NetRenderResolved(i)
  \/ \E i \in 1..Len(netInFlight) : NetRenderRejected(i)

SpecNetView == Init /\ [][NextNetView]_vars

\* ------------------------------------------------------- analysis server
\* One call of the inference function per record of calls.  exitCode and
\* signalCode are the fields of the ChildProcess ("null" for null): Node sets
\* exitCode when the subprocess ends with a code and leaves it null when a
\* signal ended it; a spawn that fails ends with the error number as code.
\* The 'close' event comes after the end of the subprocess, when its output
\* streams are closed.  The buffer output is the set of the subprocesses
\* whose chunks it holds; the buffer of stderr is filled the same way and is
\* read only for the text of the error of a failed subprocess.  jsonCalls
\* counts the calls of res.json that handleProcess and its route make for the
\* request.  tempFile is <<>> for null and <<n>> for the file
\* prompt_<n>.txt; a file on disk is <<n, i>>, the prompt of call i under
\* the name of <<n>>.
NoCall ==
  [fn |-> "none", proc |-> "none", exitCode |-> "null", signalCode |-> "null",
   killed |-> "null", output |-> {}, tempFile |-> <<>>,
   timer |-> "none", promise |-> "none", error |-> "null", res |-> 0,
   jsonCalls |-> 0]

TimeoutError == "timeout"
ExitError == "exited"
SpawnFailed == "spawn"

\* the subprocess has ended
Exited(c) == c.proc \in {"exited", "closed"}

\* resolve(value): the first settlement of the promise wins; the handler that
\* awaits it answers res.json(...) with status 200
resolve(c) ==
  IF c.promise = "pending" THEN [c EXCEPT !.promise = "resolved", !.res = 200] ELSE c

\* reject(new Error(e)); the catch block of the handler answers with 500
reject(c, e) ==
  IF c.promise = "pending"
  THEN [c EXCEPT !.promise = "rejected", !.error = e, !.res = 500]
  ELSE c

\* subprocess.kill(signal): the signal is sent while the handle of the
\* subprocess exists, that is until its end
kill(c, signal) ==
  IF c.proc = "running" THEN [c EXCEPT !.killed = signal] ELSE c

\* fs.writeFileSync(tempFile, prompt) by call i
writeFileSync(fs, name, i) == {f \in fs : f[1] # name} \cup {<<name, i>>}
\* fs.existsSync(tempFile) && fs.unlinkSync(tempFile); tempFile may be null
unlinkSync(fs, tempFile) == {f \in fs : <<f[1]>> # tempFile}

\* POST /api/analyze of llm-api.js: 400 for a body without a detections
\* array, else runOllamaAndGetOutput(formatPrompt(detections)): spawn, the
\* prompt on stdin, the handlers and the timer.  A spawn that fails reports
\* on the next tick: 'error' rejects, 'close' follows.
Analyze(valid, spawns) ==
  /\ Len(calls) < MaxCalls
  /\ calls' = Append(calls,
       IF ~valid THEN [NoCall EXCEPT !.res = 400]
       ELSE Bind([NoCall EXCEPT !.fn = "runOllamaAndGetOutput", !.proc = "running",
                                !.timer = "armed", !.promise = "pending"],
                 LAMBDA c : IF spawns THEN c
                            ELSE reject([c EXCEPT !.proc = "closed", !.exitCode = "ENOENT"],
                                        SpawnFailed)))
  /\ UNCHANGED <<files, now>>
  /\ UNCHANGED <<chainVars, appVars>>
  /\ UNCHANGED graphVars
  /\ UNCHANGED netViewVars

\* runLocalInferenceWithFile(prompt) of part_002: the prompt is written to
\* prompt_<Date.now()>.txt, then the subprocess is spawned through a shell
\* (the spawn of the shell itself does not fail); t is the value of
\* Date.now() at the call
InferWithFile(t) ==
  /\ Len(calls) < MaxCalls
  /\ t >= now
  /\ now' = t
  /\ files' = writeFileSync(files, t, Len(calls) + 1)
  /\ calls' = Append(calls,
       [NoCall EXCEPT !.fn = "runLocalInferenceWithFile", !.proc = "running",
                      !.tempFile = <<t>>, !.timer = "armed", !.promise = "pending"])
  /\ UNCHANGED <<chainVars, appVars>>
  /\ UNCHANGED graphVars
  /\ UNCHANGED netViewVars

\* stdout.on('data'): the chunk is appended to the buffer of the call
StdoutData(i) ==
  /\ calls[i].proc \in {"running", "exited"}
  /\ calls' = [calls EXCEPT ![i].output = @ \cup {i}]
  /\ UNCHANGED <<files, now>>
  /\ UNCHANGED <<chainVars, appVars>>
  /\ UNCHANGED graphVars
  /\ UNCHANGED netViewVars

\* the subprocess ends with an exit code; after SIGKILL it cannot
Exit(i, code) ==
  /\ calls[i].proc = "running"
  /\ calls[i].killed # "SIGKILL"
  /\ calls' = [calls EXCEPT ![i].proc = "exited", ![i].exitCode = code]
  /\ UNCHANGED <<files, now>>
  /\ UNCHANGED <<chainVars, appVars>>
  /\ UNCHANGED graphVars
  /\ UNCHANGED netViewVars

\* a signal ends the subprocess: the one that kill sent, or one from outside
\* (a crash, the out-of-memory killer)
Signalled(i) ==
  /\ calls[i].proc = "running"
  /\ calls' = [calls EXCEPT ![i].proc = "exited",
                            ![i].signalCode = IF calls[i].killed = "null" THEN "SIGSEGV"
                                              ELSE calls[i].killed]
  /\ UNCHANGED <<files, now>>
  /\ UNCHANGED <<chainVars, appVars>>
  /\ UNCHANGED graphVars
  /\ UNCHANGED netViewVars

\* on('close', code) with a handler that resolves whatever the code is
CloseM(i) ==
  /\ calls[i].proc = "exited"
  /\ files' = unlinkSync(files, calls[i].tempFile)
  /\ calls' = [calls EXCEPT ![i] = resolve([@ EXCEPT !.proc = "closed"])]
  /\ UNCHANGED now
  /\ UNCHANGED <<chainVars, appVars>>
  /\ UNCHANGED graphVars
  /\ UNCHANGED netViewVars

\* on('close', code): the temp file is removed; code 0 resolves with the
\* output, any other code (null after a signal) rejects with the error
\* errorOutput || `Process exited with code ${code}`
Close(i) ==
  /\ calls[i].proc = "exited"
  /\ files' = unlinkSync(files, calls[i].tempFile)
  /\ calls' = [calls EXCEPT ![i] =
       Bind([@ EXCEPT !.proc = "closed"],
            LAMBDA c : IF c.exitCode = "0" THEN resolve(c) ELSE reject(c, ExitError))]
  /\ UNCHANGED now
  /\ UNCHANGED <<chainVars, appVars>>
  /\ UNCHANGED graphVars
  /\ UNCHANGED netViewVars

\* the signal that the timer of the function sends
KillSignal(fn) == IF fn = "runOllamaAndGetOutput" THEN "SIGKILL" ELSE "SIGTERM"

\* the callback of setTimeout; the timer is never cleared
Timeout(i) ==
  /\ calls[i].timer = "armed"
  /\ calls' = [calls EXCEPT ![i] =
       Bind([@ EXCEPT !.timer = "fired"],
            LAMBDA c : IF c.exitCode = "null"
                       THEN reject(kill(c, KillSignal(c.fn)), TimeoutError)
                       ELSE c)]
  /\ UNCHANGED <<files, now>>
  /\ UNCHANGED <<chainVars, appVars>>
  /\ UNCHANGED graphVars
  /\ UNCHANGED netViewVars

ExitCodes == {"0", "1"}

\* the server of llm-api.js with the events of its subprocesses and timers
NextServer ==
  \/ \E valid, spawns \in BOOLEAN : Analyze(valid, spawns)
  \/ \E i \in DOMAIN calls : StdoutData(i)
  \/ \E i \in DOMAIN calls : \E code \in ExitCodes : Exit(i, code)
  \/ \E i \in DOMAIN calls : Signalled(i)
  \/ \E i \in DOMAIN calls : Close(i)
  \/ \E i \in DOMAIN calls : Timeout(i)

SpecServer == Init /\ [][NextServer]_vars

\* the event loop of the server runs the callback of every timer, and Node
\* emits 'close' once a subprocess has ended and its streams are closed
SpecServerFair ==
  /\ SpecServer
  /\ \A i \in 1..MaxCalls : WF_vars(i \in DOMAIN calls /\ Timeout(i))
  /\ \A i \in 1..MaxCalls : WF_vars(i \in DOMAIN calls /\ Close(i))

\* calls of runLocalInferenceWithFile of part_002
NextServerFile ==
  \/ \E t \in 0..MaxNow : InferWithFile(t)
  \/ \E i \in DOMAIN calls : StdoutData(i)
  \/ \E i \in DOMAIN calls : \E code \in ExitCodes : Exit(i, code)
  \/ \E i \in DOMAIN calls : Signalled(i)
  \/ \E i \in DOMAIN calls : Close(i)
  \/ \E i \in DOMAIN calls : Timeout(i)

SpecServerFile == Init /\ [][NextServerFile]_vars

\* ------------------------------------------- GET /api/test-method/:method
\* The server has ended: an 'error' event of a subprocess without a listener,
\* or a second res.json for one request (ERR_HTTP_HEADERS_SENT thrown in a
\* callback), is an uncaught exception.
Crashed ==
  \E i \in DOMAIN calls :
     calls[i].fn = "handleProcess" /\ (calls[i].error = SpawnFailed \/ calls[i].jsonCalls > 1)

TestMethods == {"spawn", "shell", "cmd", "other"}

\* GET /api/test-method/:method of part_003: the subprocess is spawned and
\* given to handleProcess, which sets the handlers and the timer; an unknown
\* method is answered at once.  handleProcess sets no handler for 'error'.
TestMethod(method, spawns) ==
  /\ ~Crashed
  /\ Len(calls) < MaxCalls
  /\ calls' = Append(calls,
       IF method = "other" THEN [NoCall EXCEPT !.res = 200, !.jsonCalls = 1]
       ELSE IF ~spawns THEN [NoCall EXCEPT !.fn = "handleProcess", !.error = SpawnFailed]
       ELSE [NoCall EXCEPT !.fn = "handleProcess", !.proc = "running", !.timer = "armed"])
  /\ UNCHANGED <<files, now>>
  /\ UNCHANGED <<chainVars, appVars>>
  /\ UNCHANGED graphVars
  /\ UNCHANGED netViewVars

\* process.on('close', code) of handleProcess:
\* res.json({ code, output, error, success: code === 0 })
ProbeClose(i) ==
  /\ ~Crashed
  /\ calls[i].fn = "handleProcess"
  /\ calls[i].proc = "exited"
  /\ calls' = [calls EXCEPT ![i].proc = "closed", ![i].res = 200, ![i].jsonCalls = @ + 1]
  /\ UNCHANGED <<files, now>>
  /\ UNCHANGED <<chainVars, appVars>>
  /\ UNCHANGED graphVars
  /\ UNCHANGED netViewVars

\* the callback of setTimeout of handleProcess: when exitCode is null,
\* process.kill() (SIGTERM) and res.json({ timeout: true, output, error })
ProbeTimeout(i) ==
  /\ ~Crashed
  /\ calls[i].fn = "handleProcess"
  /\ calls[i].timer = "armed"
  /\ calls' = [calls EXCEPT ![i] =
       Bind([@ EXCEPT !.timer = "fired"],
            LAMBDA c : IF c.exitCode = "null"
                       THEN [kill(c, "SIGTERM") EXCEPT !.res = 200, !.jsonCalls = @ + 1]
                       ELSE c)]
  /\ UNCHANGED <<files, now>>
  /\ UNCHANGED <<chainVars, appVars>>
  /\ UNCHANGED graphVars
  /\ UNCHANGED netViewVars

\* the test route with the events of its subprocesses and timers
NextProbe ==
  \/ \E method \in TestMethods, spawns \in BOOLEAN : TestMethod(method, spawns)
  \/ \E i \in DOMAIN calls : StdoutData(i)
  \/ \E i \in DOMAIN calls : \E code \in ExitCodes : Exit(i, code)
  \/ \E i \in DOMAIN calls : Signalled(i)
  \/ \E i \in DOMAIN calls : ProbeClose(i)
  \/ \E i \in DOMAIN calls : ProbeTimeout(i)

SpecProbe == Init /\ [][NextProbe]_vars

\* ------------------------------------------------------ telemetry density
\* A valid eventTime is <<year, month, day, hour>> in the local time zone; an
\* absent or unparseable one is <<>>.  The date string "a/b/y" is the triple
\* <<a, b, y>> of its numbers, "Invalid Date" is <<0, 0, 0>>.
NaN == -1
InvalidDate == <<0, 0, 0>>
Locales == {"en-US", "en-GB"}

\* new Date(d.eventTime)
EventDate(d) == IF "eventTime" \in DOMAIN d THEN d.eventTime ELSE <<>>

\* Date.prototype.toLocaleDateString(): month/day/year in en-US,
\* day/month/year in en-GB
toLocaleDateString(t, loc) ==
  IF t = <<>> THEN InvalidDate
  ELSE IF loc = "en-US" THEN <<t[2], t[3], t[1]>>
  ELSE <<t[3], t[2], t[1]>>

\* new Date(date).getTime(): the parser reads "a/b/y" as month a, day b; the
\* time is counted in days
getTime(date) ==
  IF date[1] \in 1..12 /\ date[2] \in 1..31
  THEN (date[3] * 12 + date[1]) * 31 + date[2]
  ELSE NaN

\* groups[date] = (groups[date] || 0) + 1; the entries keep insertion order
GroupsAdd(groups, date) ==
  IF \E k \in 1..Len(groups) : groups[k].date = date
  THEN [k \in 1..Len(groups) |->
          IF groups[k].date = date THEN [groups[k] EXCEPT !.count = @ + 1] ELSE groups[k]]
  ELSE Append(groups, [date |-> date, count |-> 1])

\* detections.forEach(...) over the first n detections
RECURSIVE GroupsOf(_, _, _)
GroupsOf(dets, loc, n) ==
  IF n = 0 THEN <<>>
  ELSE Bind(GroupsOf(dets, loc, n - 1),
            LAMBDA g : GroupsAdd(g, toLocaleDateString(EventDate(dets[n]), loc)))

\* the comparator of the sort; a NaN result counts as 0
SortCompare(a, b) ==
  IF getTime(a.date) = NaN \/ getTime(b.date) = NaN THEN 0
  ELSE getTime(a.date) - getTime(b.date)

\* Array.prototype.sort is stable: e goes behind the entries not greater
SortInsert(sorted, e) ==
  Bind(Cardinality({i \in 1..Len(sorted) : SortCompare(sorted[i], e) <= 0}),
       LAMBDA k : SubSeq(sorted, 1, k) \o <<e>> \o SubSeq(sorted, k + 1, Len(sorted)))

RECURSIVE StableSort(_, _)
StableSort(es, n) ==
  IF n = 0 THEN <<>>
  ELSE Bind(StableSort(es, n - 1), LAMBDA sorted : SortInsert(sorted, es[n]))

Orders(es) ==
  {[i \in 1..Len(es) |-> es[p[i]]] :
     p \in {q \in [1..Len(es) -> 1..Len(es)] :
              \A i, j \in 1..Len(es) : i # j => q[i] # q[j]}}

\* the outcomes of .sort(comparator): with a comparator that is no
\* consistent order (it has NaN results) the order is left to the engine
Sorts(es) ==
  IF \A i \in 1..Len(es) : getTime(es[i].date) # NaN
  THEN {StableSort(es, Len(es))}
  ELSE Orders(es)

\* .slice(-n)
LastN(s, n) == IF Len(s) <= n THEN s ELSE SubSeq(s, Len(s) - n + 1, Len(s))

\* the values that the useMemo of chartData can have
ChartDataOf(dets, loc) ==
  {LastN(sorted, ChartLimit) : sorted \in Sorts(GroupsOf(dets, loc, Len(dets)))}

\* detections with an eventTime: two of 5 January, a day whose day number is
\* above 12, and one without a time
Ev1 == [uuid |-> <<"1">>, eventTime |-> <<2026, 1, 5, 9>>]
Ev2 == [uuid |-> <<"2">>, eventTime |-> <<2026, 1, 5, 17>>]
Ev3 == [uuid |-> <<"3">>, eventTime |-> <<2026, 2, 1, 0>>]
Ev4 == [uuid |-> <<"4">>, eventTime |-> <<2025, 12, 25, 8>>]
Ev5 == [uuid |-> <<"5">>]
EventRecords == {Ev1, Ev2, Ev3, Ev4, Ev5}

\* the i-th of many days, twelve to a month
GenEvent(i) ==
  [uuid |-> NumStr(i),
   eventTime |-> <<2026, 1 + ((i - 1) \div 12), 1 + ((i - 1) % 12), 0>>]
\* more days than the chart keeps, latest first, the latest day twice
LongGraph ==
  [k \in 1..(ChartLimit + Extra + 1) |->
     IF k = 1 THEN GenEvent(ChartLimit + Extra)
     ELSE GenEvent(ChartLimit + Extra + 2 - k)]
GraphBatches == SeqsUpTo(EventRecords, MaxLen) \cup {LongGraph}

\* a render of TelemetryGraph with a new detections prop in a browser of
\* locale loc
RenderGraph(dets, loc) ==
  /\ graphDetections' = dets
  /\ locale' = loc
  /\ chartData' \in ChartDataOf(dets, loc)
  /\ UNCHANGED <<chainVars, appVars, serverVars>>
  /\ UNCHANGED netViewVars

NextGraph == \E dets \in GraphBatches, loc \in Locales : RenderGraph(dets, loc)

SpecGraph == Init /\ [][NextGraph]_vars

\* ================================================================ claims
\* the first n elements of a sequence
First(s, n) == [i \in 1..(IF Len(s) < n THEN Len(s) ELSE n) |-> s[i]]
IsGraph(g) == g.kind = "graph"
NodeMap(g) == {g.nodes[i] : i \in 1..Len(g.nodes)}
EdgeSet(g) == {g.edges[i] : i \in 1..Len(g.edges)}
\* the same id -> label mapping and the same edge set, or no graph twice
SameGraph(g, h) ==
  IF IsGraph(g) /\ IsGraph(h) THEN NodeMap(g) = NodeMap(h) /\ EdgeSet(g) = EdgeSet(h)
  ELSE g.kind = h.kind
HasLabel(g, label) == \E n \in 1..Len(g.nodes) : g.nodes[n][2] = label
\* the compilation of the current props by a ProcessChain that was just mounted
FreshProcDef == ProcMermaid(detections, isActive, <<>>, 0).def

C3_NoGraph ==
  (~isActive \/ Len(detections) = 0) => (procDef = Null /\ netDef = Null)

\* inactive, with detections that compile to a graph when active
C3_Witness ==
  /\ ~isActive
  /\ Len(detections) > 0
  /\ procDef = Null /\ netDef = Null
  /\ IsGraph(ProcMermaid(detections, TRUE, <<>>, 0).def)
  /\ IsGraph(NetMermaid(detections, TRUE))

\* the listed nodes carry the identifiers n0, n1, n2, ... in this order
CounterOrder(g) ==
  IsGraph(g) => \A i \in 1..Len(g.nodes) : g.nodes[i][1] = <<"n">> \o NumStr(i - 1)
\* no key has two identifiers and no identifier has two keys
CacheInjective(cache) ==
  \A i, j \in 1..Len(cache) :
     (cache[i][1] = cache[j][1] \/ cache[i][2] = cache[j][2]) => i = j
\* while the cache of the last compilation is still there: every sampled
\* record's actor key has an identifier, and its node carries the actor label
ActorNodesShared ==
  (IsGraph(procDef) /\ idCache # <<>>) =>
     \A i \in 1..Len(First(detections, SampleLimit)) :
        /\ MapHas(idCache, UserKey(ProcUser(detections[i])))
        /\ <<MapGet(idCache, UserKey(ProcUser(detections[i]))),
             UserLabel(ProcUser(detections[i]))>> \in NodeMap(procDef)

FirstWith(b, K(_), i) ==
  CHOOSE j \in 1..i : K(b[j]) = K(b[i]) /\ \A l \in 1..(j - 1) : K(b[l]) # K(b[i])
\* the node of key K(b[i]) carries the label of the first record with that key
NetLabelFixed(b, cache, K(_), L(_)) ==
  \A i \in 1..Len(b) :
     <<MapGet(cache, K(b[i])), L(b[FirstWith(b, K, i)])>> \in NodeMap(netDef)
\* every stage label of the process chain of record d that the code builds
ProcLabels(d) ==
  {UserLabel(ProcUser(d))}
  \cup (IF ProcParent(d) # <<>> THEN {ParentLabel(ProcParent(d))} ELSE {})
  \cup (IF ProcProcess(d) # <<>> THEN {ProcessLabel(ProcProcess(d))} ELSE {})
  \cup (IF ProcProcess(d) # <<>> /\ ProcObject(d) # <<>>
        THEN {ObjectLabel(ProcObject(d))} ELSE {})
  \cup (IF ProcProcess(d) # <<>> /\ ProcObjectCmd(d) # <<>>
        THEN {CmdLabel(ProcObjectCmd(d))} ELSE {})

\* C5: every node carries the label that the first record with its key gave
\* it; a later record with the same key does not change it.
C5_LabelStability ==
  /\ IsGraph(netDef) =>
       \E b \in {networkBatch(detections)} : \E c \in {NetCompile(b).cache} :
          /\ NetLabelFixed(b, c, NetUserKey, NetUserLabel)
          /\ NetLabelFixed(b, c, NetBrowserKey, NetBrowserLabel)
          /\ NetLabelFixed(b, c, NetReqKey, NetReqLabel)
          /\ NetLabelFixed(b, c, NetDestKey, NetDestLabel)
          /\ NetLabelFixed(b, c, NetPolicyKey, NetPolicyLabel)
  /\ (IsGraph(procDef) /\ Len(procDef.edges) <= EdgeCap) =>
       \A i \in 1..Len(First(detections, SampleLimit)) :
          \A l \in ProcLabels(detections[i]) : HasLabel(procDef, l)

\* C6: a compiled process-chain graph never holds more than 100 edges.
C6_EdgeCap == IsGraph(procDef) => Len(procDef.edges) <= EdgeCap

\* C7: a render of ProcessChain gives the graph that the same render gives
\* for the first 150 records of the input alone: a record at position 151 or
\* later contributes no node, no label and no edge.
C7_SamplingBound ==
  [][~pendingReset =>
       procDef' = ProcMermaid(First(detections', SampleLimit), isActive',
                              idCache, idCounter).def]_vars

\* a graph of more than 150 records whose 151st record has an actor that no
\* node of the graph shows
C7_Witness ==
  /\ isActive
  /\ Len(detections) > SampleLimit
  /\ IsGraph(procDef)
  /\ ~HasLabel(procDef, UserLabel(ProcUser(detections[SampleLimit + 1])))

\* C8 as stated: the network graph is the graph of the first 50 records of
\* the input.
C8_First50OfInput == netDef = NetMermaid(First(detections, NetworkLimit), isActive)

\* the input up to its n-th network log (all of it when it has fewer)
UpToNthLog(dets, n) ==
  LET ends == {p \in 1..Len(dets) :
                 Cardinality({q \in 1..p : IsNetworkLog(dets[q])}) = n}
  IN IF ends = {} THEN dets
     ELSE First(dets, CHOOSE p \in ends : \A q \in ends : p <= q)

\* C8 amended: the network graph is the graph of the input up to its 50th
\* network log (a record with request, dst or principalName); records after
\* that one contribute nothing.
C8_First50NetworkLogs == netDef = NetMermaid(UpToNthLog(detections, NetworkLimit), isActive)

\* a graph of more than 50 network logs, the 51st of them at an input
\* position after 51 and with an actor that no node of the graph shows
C8_Witness ==
  /\ isActive
  /\ IsGraph(netDef)
  /\ \E logs \in {SelectSeq(detections, IsNetworkLog)} :
        /\ Len(logs) > NetworkLimit
        /\ ~HasLabel(netDef, NetUserLabel(logs[NetworkLimit + 1]))
  /\ ~IsNetworkLog(detections[1])

\* the process key of the specification
SpecProcess(d) == FirstOf(d, <<"processFilePath", "processName">>)

\* C9: every sampled record with processFilePath or processName has a process
\* node labelled from processFilePath, else processName; the simple chain
\* record alone gives 4 nodes and 3 edges.
C9_ProcessKey ==
  IsGraph(procDef) =>
     /\ \A i \in 1..Len(detections) :
          SpecProcess(detections[i]) # <<>> =>
             HasLabel(procDef, ProcessLabel(SpecProcess(detections[i])))
     /\ detections = <<RecChain>> => (Len(procDef.nodes) = 4 /\ Len(procDef.edges) = 3)

\* an edge from a node labelled la to a node labelled lb
HasEdge(g, la, lb) ==
  \E a, b \in 1..Len(g.nodes) :
     /\ g.nodes[a][2] = la
     /\ g.nodes[b][2] = lb
     /\ ProcEdge(g.nodes[a][1], g.nodes[b][1]) \in EdgeSet(g)

\* C10: every sampled record with a process key and no parent key has the
\* edge actor -> process, and its object and command hang under the process.
C10_MissingParent ==
  IsGraph(procDef) =>
     \A i \in 1..Len(detections) :
        \E d \in {detections[i]} :
          (ProcParent(d) = <<>> /\ SpecProcess(d) # <<>>) =>
             /\ HasEdge(procDef, UserLabel(ProcUser(d)), ProcessLabel(SpecProcess(d)))
             /\ ProcObject(d) # <<>> =>
                  HasEdge(procDef, ProcessLabel(SpecProcess(d)), ObjectLabel(ProcObject(d)))
             /\ ProcObjectCmd(d) # <<>> =>
                  HasEdge(procDef, ProcessLabel(SpecProcess(d)), CmdLabel(ProcObjectCmd(d)))

\* the fields the process chain reads, and the fields the network chain reads
ProcFieldNames == {"objectUser", "suser", "parentFilePath", "parentProcessName", "parentName",
                   "processFilePath", "processName", "objectFilePath", "objectName",
                   "objectCmd", "processCmd"}
NetFieldNames == {"principalName", "suid", "endpointHostName", "userAgent", "osName",
                  "request", "requestBase", "requestMethod", "dst", "dstLocation",
                  "serverTls", "act", "ruleName", "urlCat"}
\* the record has a field the process chain (the network chain) can use
ProcUsable(d) == \E f \in ProcFieldNames : StrField(d, f) # <<>>
NetUsable(d) == (\E f \in NetFieldNames : StrField(d, f) # <<>>) \/ NumField(d, "score") # 0

\* C11: every render gives the node and edge sets that the same render gives
\* for the input without its records that have no usable field: such a
\* record contributes no node and no edge.
C11_SkipUnusable ==
  [][~pendingReset =>
       /\ SameGraph(procDef', ProcMermaid(SelectSeq(detections', ProcUsable), isActive',
                                          idCache, idCounter).def)
       /\ SameGraph(netDef', NetMermaid(SelectSeq(detections', NetUsable), isActive'))]_vars

\* the characters that break the node syntax id["label"]
HasBadChar(label) == \E i \in 1..Len(label) : label[i] \in {"\"", "\n"}
CleanLabels(g) == IsGraph(g) => \A n \in 1..Len(g.nodes) : ~HasBadChar(g.nodes[n][2])

\* C12: no node label of a compiled graph, of either chain and of any stage,
\* holds a double quote or a newline.
C12_Sanitized == CleanLabels(procDef) /\ CleanLabels(netDef)

\* C13: no compilation of a sparse record ends in a throw: both components
\* hold a graph or "no graph", and in a graph the absent actor shows as the
\* sentinel "System", the absent user agent and OS as "Generic Browser" and
\* "Unknown OS".
C13_NeverThrows ==
  /\ procDef # Thrown /\ netDef # Thrown
  /\ (procDef = Null \/ IsGraph(procDef)) /\ (netDef = Null \/ IsGraph(netDef))
  /\ (IsGraph(procDef) /\ \E i \in 1..Len(detections) : FirstOf(detections[i], UserFields) = <<>>)
       => HasLabel(procDef, <<"(user)", " ", "S", "y", "s", "t", "e", "m">>)
  /\ (IsGraph(netDef) /\ \E i \in 1..Len(detections) :
          IsNetworkLog(detections[i]) /\ DOMAIN detections[i] \cap {"userAgent", "osName"} = {})
       => HasLabel(netDef, <<"(globe)", " ", "G", "e", "n", "e", "r", "i", "c", " ", "B", "r", "o", "w", "s", "e", "r">>
                           \o Br \o <<"U", "n", "k", "n", "o", "w", "n", " ", "O", "S">>)

\* the graph of a record with a process and no actor, parent, object or
\* command field
C13_Witness ==
  /\ isActive
  /\ Len(detections) = 1
  /\ DOMAIN detections[1] = {"processName"}
  /\ IsGraph(procDef)
  /\ Len(procDef.nodes) = 2
  /\ netDef = Null

\* no call of mermaid.render is in flight and no effect is pending
Settled == inFlight = {} /\ ~pendingRender /\ ~pendingReset

\* C14: a rejected render leaves the failure placeholder as the content, and
\* what the component shows then differs from what it shows for "no data":
\* the failure placeholder never comes with the "No Process Chain Available"
\* overlay, and a settled component without a definition does not show the
\* failure placeholder.
C14_RenderFailure ==
  /\ [][\A c \in inFlight :
         (inFlight' = inFlight \ {c} /\ svgContent' # svgContent /\ svgContent' # SvgOf(c.def))
            => svgContent' = FaultSvg]_vars
  /\ [](svgContent = FaultSvg => ~ShowsNoChainOverlay)
  /\ []((Settled /\ isActive /\ procDef = Null) => svgContent # FaultSvg)

\* the elements of xs at the positions I, in the order of xs
AtPositions(xs, I) ==
  [k \in 1..Cardinality(I) |-> xs[CHOOSE i \in I : Cardinality({j \in I : j <= i}) = k]]
\* the detections of xs that have a key and that no earlier detection with the
\* same key precedes
FirstPerKey(xs, Key(_), Has(_)) ==
  AtPositions(xs, {i \in 1..Len(xs) :
                     Has(xs[i]) /\ \A j \in 1..(i - 1) : Has(xs[j]) => Key(xs[j]) # Key(xs[i])})
\* the value of the field of the unique filter, and the key made of it
FilterValue(d) == StrField(d, uniqueField)
FilterKey(d) == UniqueKey(FilterValue(d))
HasFilterValue(d) == FilterValue(d) # <<>>
HasPromptKey(d) == PromptKey(d) # <<>>
Always(d) == TRUE
\* the unique filter has run on the detections of App
Filtered == uniqueFilterEnabled
\* the server has written its prompt for all the detections of App
Posted == analyzed = "post"

\* C15: of the detections that have a key, the deduplication keeps exactly
\* the first one of every distinct key, in the order of the input; the five
\* detections of the scenario give the first, second, fourth and fifth.
C15_FirstPerKey ==
  /\ Filtered =>
        /\ SelectSeq(displayDetections, HasFilterValue)
              = FirstPerKey(appDetections, FilterKey, HasFilterValue)
        /\ (appDetections = Scenario5 /\ uniqueField = "processName")
              => displayDetections = <<DSvc1, DCmd, DNet, DPs>>
  /\ Posted =>
        /\ SelectSeq(promptSample, HasPromptKey)
              = First(FirstPerKey(appDetections, PromptKey, HasPromptKey), PromptLimit)
        /\ appDetections = Scenario5 => promptSample = <<DSvc1, DCmd, DNet, DPs>>

\* the scenario of five detections through the filter and through the prompt
C15_Witness ==
  /\ appDetections = Scenario5
  /\ Filtered /\ uniqueField = "processName"
  /\ Posted
  /\ displayDetections = <<DSvc1, DCmd, DNet, DPs>>
  /\ promptSample = displayDetections

\* C16: deduplicating the result of a deduplication again, by the same key
\* and with the same limit, gives the same sequence.
C16_Idempotent ==
  /\ Filtered => uniqueDetections(displayDetections, uniqueField, TRUE) = displayDetections
  /\ Posted => formatPrompt(promptSample, PromptLimit) = promptSample

\* a prompt sample cut at the limit and a filter result, both shorter than
\* the input they come from
C16_Witness ==
  /\ Filtered /\ Posted
  /\ Len(promptSample) = PromptLimit
  /\ Len(displayDetections) > 0
  /\ Len(displayDetections) < Len(appDetections)

\* C17 as stated: in both deduplications the detections without a key share
\* one key, so the first of them survives, in its place.
C17_KeylessShareKey ==
  /\ Filtered => displayDetections = FirstPerKey(appDetections, FilterKey, Always)
  /\ Posted => promptSample = First(FirstPerKey(appDetections, PromptKey, Always), PromptLimit)

\* C17 amended: in the prompt the detections without a key share the empty
\* key and the first of them survives in its place (within the limit); the
\* unique filter keeps no detection without a value of its field.
C17_KeylessPolicy ==
  /\ Filtered => \A i \in 1..Len(displayDetections) : HasFilterValue(displayDetections[i])
  /\ Posted => promptSample = First(FirstPerKey(appDetections, PromptKey, Always), PromptLimit)

\* two detections without a process field: the prompt holds the first, the
\* filter none
C17_Witness ==
  /\ Len(appDetections) = 2
  /\ \A i \in 1..2 : ~HasPromptKey(appDetections[i])
  /\ Filtered /\ displayDetections = <<>>
  /\ Posted /\ promptSample = <<appDetections[1]>>

\* C18: the sample in the prompt of an analysis is the first 200 detections
\* of the deduplication of all the detections given to the analysis.
C18_TruncateAfterDedupe ==
  analyzed # "none" =>
     promptSample = First(FirstPerKey(appDetections, PromptKey, Always), PromptLimit)

\* the timer of call i fires in this step
TimerFires(i) == calls[i].timer = "armed" /\ calls'[i].timer = "fired"

\* C19: when the timer of a call fires and the subprocess has not ended, the
\* subprocess is killed with SIGKILL and the call is rejected with the
\* timeout error; when the subprocess has ended already, the step changes
\* nothing but the timer: not the promise, not the response, not the
\* subprocess, no file.
C19_Timeout ==
  [][\A i \in DOMAIN calls :
       TimerFires(i) =>
         IF Exited(calls[i])
         THEN calls'[i] = [calls[i] EXCEPT !.timer = "fired"] /\ files' = files
         ELSE /\ calls'[i].killed = "SIGKILL"
              /\ calls'[i].promise = "rejected"
              /\ calls'[i].error = TimeoutError]_vars

\* the subprocess of the call was spawned and its 'close' is still to come
Running(c) == c.proc \in {"running", "exited"}

DayOf(t) == <<t[1], t[2], t[3]>>
DayOrd(day) == (day[1] * 12 + day[2]) * 31 + day[3]
\* the days of the detections, and the n latest of them
DaysOf(dets) == {DayOf(EventDate(dets[i])) : i \in 1..Len(dets)}
LatestDays(days, n) ==
  {day \in days : Cardinality({e \in days : DayOrd(e) > DayOrd(day)}) < n}

\* C21: for detections that all have a valid eventTime, chartData holds one
\* bucket for each of the 30 latest days of the input, in ascending order of
\* the days, and the count of a bucket is the number of detections of its
\* day.
C21_Buckets ==
  (\A i \in 1..Len(graphDetections) : EventDate(graphDetections[i]) # <<>>) =>
     \E kept \in {LatestDays(DaysOf(graphDetections), ChartLimit)} :
        /\ Len(chartData) = Cardinality(kept)
        /\ \A day \in kept :
              \E k \in {1 + Cardinality({e \in kept : DayOrd(e) < DayOrd(day)})} :
                 /\ chartData[k].date = toLocaleDateString(<<day[1], day[2], day[3], 0>>, locale)
                 /\ chartData[k].count =
                       Cardinality({i \in 1..Len(graphDetections) :
                                      DayOf(EventDate(graphDetections[i])) = day})

\* the risk markers and the marker that the tiers of the claim give a score
HighMarker == <<"(red)">>
MediumMarker == <<"(yellow)">>
LowMarker == <<"(green)">>
MarkerOf(score) ==
  IF score >= 90 THEN HighMarker
  ELSE IF 70 <= score /\ score < 90 THEN MediumMarker
  ELSE LowMarker
MarkersIn(label) == {m \in {HighMarker, MediumMarker, LowMarker} : includes(label, m)}
IsPolicyLabel(label) == label[1] = "(shield)"
\* the label shows the score of d with the marker of its tier and no other
ShowsTier(label, d) ==
  /\ IsPolicyLabel(label)
  /\ includes(label, <<"S", "c", "o", "r", "e", ":", " ">> \o NumStr(NumField(d, "score")) \o <<" ", "(">>)
  /\ MarkersIn(label) = {MarkerOf(NumField(d, "score"))}

\* C22: every network log of the graph has a policy node whose label shows
\* its score (0 when absent) with the high marker for 90 and above, the
\* medium marker from 70 to 89 and the low marker below, and every policy
\* node is the node of such a log.
C22_RiskTier ==
  IsGraph(netDef) =>
     \E logs \in {networkBatch(detections)} :
        /\ \A i \in 1..Len(logs) :
              \E k \in 1..Len(netDef.nodes) : ShowsTier(netDef.nodes[k][2], logs[i])
        /\ \A k \in 1..Len(netDef.nodes) :
              IsPolicyLabel(netDef.nodes[k][2]) =>
                 \E i \in 1..Len(logs) : ShowsTier(netDef.nodes[k][2], logs[i])

\* a graph of a log of score 90 and a log without a score
C22_Witness ==
  /\ IsGraph(netDef)
  /\ \E i, j \in 1..Len(detections) :
        /\ NumField(detections[i], "score") = 90
        /\ "score" \notin DOMAIN detections[j]
  /\ \E k \in 1..Len(netDef.nodes) : includes(netDef.nodes[k][2], HighMarker)
  /\ \E k \in 1..Len(netDef.nodes) : includes(netDef.nodes[k][2], LowMarker)

\* the identifiers before the first and behind the last blank of an edge
EdgeSource(e) ==
  SubSeq(e, 1, (CHOOSE k \in 1..Len(e) : e[k] = " " /\ \A j \in 1..(k - 1) : e[j] # " ") - 1)
EdgeTarget(e) ==
  SubSeq(e, (CHOOSE k \in 1..Len(e) : e[k] = " " /\ \A j \in (k + 1)..Len(e) : e[j] # " ") + 1,
         Len(e))
NoSelfLoop(g) ==
  IsGraph(g) => \A i \in 1..Len(g.edges) : EdgeSource(g.edges[i]) # EdgeTarget(g.edges[i])

\* C23: no edge of the process graph or of the network graph leads from a
\* node to itself.
C23_NoSelfLoops == NoSelfLoop(procDef) /\ NoSelfLoop(netDef)

\* both graphs of a batch whose records have the same string in every stage
C23_Witness ==
  /\ detections = <<RecSame, RecSameNet>>
  /\ IsGraph(procDef) /\ Len(procDef.edges) = 4
  /\ IsGraph(netDef) /\ Len(netDef.edges) = 4

\* no call of mermaid.render is in flight and no effect is scheduled
NoRenderInFlight == inFlight = {} /\ ~pendingRender

\* C24: whenever no render of ProcessChain is in flight, isRendering is
\* false then or becomes false later.
C24_IndicatorEnds == NoRenderInFlight ~> ~isRendering

\* no call of mermaid.render of NetworkChain is in flight and no effect is
\* pending
NetSettled == netInFlight = <<>> /\ ~netPendingRender /\ ~pendingReset

\* C25: once the renders have settled, a component whose definition is null
\* does not show the graph of an earlier batch.
C25_NoStaleGraph == (Settled /\ isActive /\ procDef = Null) => svgContent.kind # "svg"

\* C26: once the renders have settled, the svg that NetworkChain shows is the
\* one rendered from its latest definition.
C26_LatestWins ==
  (NetSettled /\ netDef.kind = "graph" /\ netSvgContent.kind = "svg")
     => netSvgContent = SvgOf(netDef)

\* the response of the request: 0 while there is none
Responded(i) == i \in DOMAIN calls /\ calls[i].res # 0

C28_OneJson == \A i \in DOMAIN calls : calls[i].jsonCalls <= 1

\* the resolved fields of the five stages of a network log, and their keys
NetStages(d) ==
  <<<<NetUser(d), NetHost(d)>>, <<NetUa(d), NetOs(d)>>, <<NetReqMethod(d), NetReqBase(d)>>,
    <<NetDstIp(d)>>, <<NetAction(d), NetRule(d), NumStr(NetScore(d)), NetCat(d)>>>>
NetKeys(d) ==
  <<NetUserKey(d), NetBrowserKey(d), NetReqKey(d), NetDestKey(d), NetPolicyKey(d)>>

\* the resolved fields of the five stages of a process record (<<>> for a
\* stage that the record does not have), and their keys
ProcStages(d) ==
  <<ProcUser(d), ProcParent(d), ProcProcess(d), ProcObject(d), ProcObjectCmd(d)>>
ProcKeys(d) ==
  <<UserKey(ProcUser(d)), ParentKey(ProcParent(d)), ProcessKey(ProcProcess(d)),
    ObjectKey(ProcObject(d)), CmdKey(ProcObjectCmd(d))>>

\* the node identifier that the compile of the network graph gave the key
NetIdOf(key) == MapGet(NetCompile(networkBatch(detections)).cache, key)

\* C29: in the graphs of a batch, two stages of two records whose resolved
\* fields differ, or that are different stages, have different node
\* identifiers.
C29_DistinctNodes ==
  /\ IsGraph(netDef) =>
       \A i, j \in 1..Len(networkBatch(detections)) : \A s, t \in 1..5 :
          LET di == networkBatch(detections)[i]
              dj == networkBatch(detections)[j]
          IN (IF s = t THEN NetStages(di)[s] # NetStages(dj)[s] ELSE TRUE)
                => NetIdOf(NetKeys(di)[s]) # NetIdOf(NetKeys(dj)[t])
  /\ IsGraph(procDef) =>
       \A i, j \in 1..Len(telemetryBatch(detections)) : \A s, t \in 1..5 :
          LET di == telemetryBatch(detections)[i]
              dj == telemetryBatch(detections)[j]
          IN (/\ IF s = t THEN ProcStages(di)[s] # ProcStages(dj)[s] ELSE TRUE
              /\ MapHas(idCache, ProcKeys(di)[s])
              /\ MapHas(idCache, ProcKeys(dj)[t]))
                => MapGet(idCache, ProcKeys(di)[s]) # MapGet(idCache, ProcKeys(dj)[t])

\* the lines of a text: its elements split at the line breaks
SplitLines(t) ==
  LET B == {k \in 1..Len(t) : t[k] = "\n"} \cup {0, Len(t) + 1}
      Kth(k) == CHOOSE b \in B : Cardinality({x \in B : x < b}) = k - 1
  IN [k \in 1..(Cardinality(B) - 1) |-> SubSeq(t, Kth(k) + 1, Kth(k + 1) - 1)]

RECURSIVE LinesOf(_, _)
\* the lines of the definition text, without the white space around them
LinesOf(text, n) ==
  IF n = 0 THEN <<>>
  ELSE Bind(LinesOf(text, n - 1), LAMBDA before :
         before \o Bind(SplitLines(text[n]), LAMBDA ls : [k \in 1..Len(ls) |-> trim(ls[k])]))

\* the place of the bracket of a line id["label...
LabelBracket(t) ==
  {k \in 2..(Len(t) - 1) : /\ t[k] = "[" /\ t[k + 1] = "\""
                            /\ \A j \in 1..(k - 1) : t[j] \notin {" ", "[", "\""}}
IsLabelLine(t) == LabelBracket(t) # {}
LabelId(t) == SubSeq(t, 1, (CHOOSE k \in LabelBracket(t) : TRUE) - 1)
\* a line id --> id or id -->|text| id
IsEdgeLine(t) == ~IsLabelLine(t) /\ includes(t, <<" ", "-", "-", ">">>)
\* a line class id name;
IsClassLine(t) == Len(t) > 6 /\ SubSeq(t, 1, 6) = <<"c", "l", "a", "s", "s", " ">>
ClassId(t) == EdgeSource(SubSeq(t, 7, Len(t)))

\* the node list of the text declares the nodes of the map, every edge line
\* joins declared nodes, and every declared node has one label line (and
\* one class line)
WellFormedText(g, ts, withClasses) ==
  LET labelLines == {k \in 1..Len(ts) : IsLabelLine(ts[k])}
      declared == {LabelId(ts[k]) : k \in labelLines}
  IN /\ \A n \in 1..Len(g.nodes) : g.nodes[n][1] \in declared
     /\ \A k \in 1..Len(ts) :
           IsEdgeLine(ts[k]) => EdgeSource(ts[k]) \in declared /\ EdgeTarget(ts[k]) \in declared
     /\ \A id \in declared : Cardinality({k \in labelLines : LabelId(ts[k]) = id}) = 1
     /\ withClasses =>
           \A id \in declared :
              Cardinality({k \in 1..Len(ts) : IsClassLine(ts[k]) /\ ClassId(ts[k]) = id}) = 1

\* C30: in the text of every compiled graph, both ends of every edge are
\* declared nodes and every declared node has exactly one label line; in
\* the network graph every declared node has exactly one class line.
C30_WellFormed ==
  /\ IsGraph(procDef) =>
       Bind(ProcDefText(procDef), LAMBDA text :
         Bind(LinesOf(text, Len(text)), LAMBDA ts : WellFormedText(procDef, ts, FALSE)))
  /\ IsGraph(netDef) =>
       Bind(NetDefText(netDef), LAMBDA text :
         Bind(LinesOf(text, Len(text)), LAMBDA ts : WellFormedText(netDef, ts, TRUE)))

====
